---- MODULE Spec2Model ----
(***************************************************************************)
(* State-machine model of the streaming sketches of src/streaming:         *)
(* DGIM, CountMinSketch, BloomFilter and the detectors built on them.      *)
(* Every data structure is a value (a record), every method an operator    *)
(* from the receiver's value (and arguments) to the receiver's new value,  *)
(* so that the detectors can nest the sketches the way the code does.      *)
(***************************************************************************)
EXTENDS Integers, Sequences, FiniteSets, TLC

\* ------------------------------------------------------------------ bounds
\* Largest arrival counter the DGIM specification explores.
MaxTime == 15
\* DGIM window sizes explored: 1..MaxWindow, and the scenario's 16.
MaxWindow == 6

\* Largest total_count the CountMinSketch specification explores.
MaxTotal == 3
\* Widths of the CountMinSketch explored: 1..MaxWidth.
MaxWidth == 3
\* Longest text, in tokens, a detector is shown.
MaxTextLen == 2

\* Largest message_count the BurstDetector specification explores.
MaxMsgs == 4
\* The number of messages a FrequencyDetector observes.
MaxFreqMsgs == 2
\* The number of messages a StreamingPipeline processes.
MaxPipeMsgs == 2
\* Largest total_count of the sketches that are merged.
MaxMergeTotal == 2

\* The longest item list add_many is called with.
MaxItems == 2

\* ------------------------------------------------------------------ helpers
Max(a, b) == IF a >= b THEN a ELSE b

Min(a, b) == IF a <= b THEN a ELSE b

RECURSIVE Pow2(_)
Pow2(k) == IF k = 0 THEN 1 ELSE 2 * Pow2(k - 1)

Abs(x) == IF x < 0 THEN -x ELSE x

RECURSIVE GCD(_, _)
GCD(a, b) == IF b = 0 THEN a ELSE GCD(b, a % b)

\* The float n / d of Python for small naturals, as the reduced fraction
\* <<numerator, denominator>>; d > 0.
Ratio(n, d) == <<n \div GCD(n, d), d \div GCD(n, d)>>

\* a / b >= c / d for fractions with positive denominators.
RatioGeq(x, y) == x[1] * y[2] >= y[1] * x[2]

\* The value every variable of a component has in the specifications that
\* do not run that component.
Idle == "idle"

RECURSIVE Concat(_)
\* Concatenation of a sequence of sequences (the nested loops that walk
\* every deque of every level).
Concat(ss) == IF ss = <<>> THEN <<>> ELSE Head(ss) \o Concat(Tail(ss))

\* ------------------------------------------------------------------ state
VARIABLES
    raised,    \* the exception the latest call raised, "none" if it returned
    \* DGIM
    dgim,      \* the DGIM object under test
    stream,    \* the last window_size bits pushed into dgim (newest last)
    preDgim,   \* dgim as it was before the latest push
    lastBit,   \* the bit of the latest push, -1 before the first
    \* CountMinSketch
    cms,       \* the sketch under test
    trueCount, \* trueCount[item]: the sum of the counts added for item
    \* BloomFilter and DuplicateDetector
    bloomH1,   \* bloomH1[item]: the first keyed hash of item, modulo m
    bloomH2,   \* bloomH2[item]: the second keyed hash of item, modulo m
    bloom,     \* the filter under test
    passed,    \* the items for which add has returned
    dup,       \* the DuplicateDetector under test
    preDup,    \* dup as it was before the latest observe_message
    lastText,  \* the text of the latest observe_message
    lastResult,\* what the latest observe_message returned
    repeated,  \* TRUE iff the latest two observe_message calls had the same text
    \* BurstDetector
    burst,     \* the BurstDetector under test
    preBurst,  \* burst as it was before the latest call
    lastCall,  \* the method of the latest call, "none" before the first
    \* FrequencyDetector
    freq,      \* the FrequencyDetector under test
    preFreq,   \* freq as it was before the latest call
    \* CountMinSketch.merge
    other,     \* the sketch merged into cms
    preCms,    \* cms as it was before the latest call
    preOther,  \* other as it was before the latest call
    fed,       \* fed[1], fed[2]: the <<item, count>> adds that cms and other took
    \* StreamingPipeline
    pipeTrace, \* the detector calls of the latest process_message, in order
    pipeOut,   \* what the latest process_message returned, <<>> if it raised
    \* queries
    target     \* the component the calls and queries are made on

dgimVars == <<dgim, stream, preDgim, lastBit>>

cmsVars == <<cms, trueCount>>

hashVars == <<bloomH1, bloomH2>>

bloomVars == <<bloom, passed>>

dupVars == <<dup, preDup, lastText, lastResult, repeated>>

burstVars == <<burst, preBurst, lastCall>>

freqVars == <<freq, preFreq>>

mergeVars == <<other, preCms, preOther, fed>>

pipeVars == <<pipeTrace, pipeOut>>

queryVars == <<target>>

restVars == <<freqVars, mergeVars, pipeVars, queryVars>>

vars == <<raised, dgimVars, cmsVars, hashVars, bloomVars, dupVars, burstVars, restVars>>

DgimIdle == dgim = Idle /\ stream = Idle /\ preDgim = Idle /\ lastBit = Idle

CmsIdle == cms = Idle /\ trueCount = Idle

BloomIdle == bloom = Idle /\ passed = Idle

DupIdle ==
    /\ dup = Idle /\ preDup = Idle /\ lastText = Idle
    /\ lastResult = Idle /\ repeated = Idle

HashIdle == bloomH1 = Idle /\ bloomH2 = Idle

BurstIdle == burst = Idle /\ preBurst = Idle /\ lastCall = Idle

FreqIdle == freq = Idle /\ preFreq = Idle

MergeIdle == other = Idle /\ preCms = Idle /\ preOther = Idle /\ fed = Idle

PipeIdle == pipeTrace = Idle /\ pipeOut = Idle

QueryIdle == target = Idle

RestIdle == FreqIdle /\ MergeIdle /\ PipeIdle /\ QueryIdle

\* ------------------------------------------------------------------ DGIM
\* A bucket is <<size, end_timestamp>>, as the tuples of the code.
\* levels[k+1] is the deque of level k, oldest bucket first.
DGIM_new(window_size) == [window_size |-> window_size, levels |-> <<>>, time |-> 0]

RECURSIVE ExpireDeque(_, _)
\* while dq and dq[0][1] <= window_start: dq.popleft()
ExpireDeque(dq, window_start) ==
    IF dq # <<>> /\ dq[1][2] <= window_start
    THEN ExpireDeque(Tail(dq), window_start)
    ELSE dq

expire_old(d) ==
    LET window_start == d.time - d.window_size
    IN [d EXCEPT !.levels = [i \in DOMAIN d.levels |-> ExpireDeque(d.levels[i], window_start)]]

RECURSIVE MergeCascade(_, _)
\* The while-True loop of push: lvl is the 1-based index of the level.
MergeCascade(levels, lvl) ==
    IF Len(levels[lvl]) <= 2
    THEN levels
    ELSE LET oldest == levels[lvl][1]
             second_oldest == levels[lvl][2]
             merged_size == oldest[1] + second_oldest[1]
             merged_end_time == Max(oldest[2], second_oldest[2])
             popped == [levels EXCEPT ![lvl] = Tail(Tail(@))]
             grown == IF lvl + 1 > Len(popped) THEN Append(popped, <<>>) ELSE popped
             appended == [grown EXCEPT ![lvl + 1] = Append(@, <<merged_size, merged_end_time>>)]
         IN MergeCascade(appended, lvl + 1)

\* Mutant of push_valid: the cascade of merges is left out.
push_no_merge(d, bit) ==
    LET expired == expire_old([d EXCEPT !.time = @ + 1])
        based == IF expired.levels = <<>> THEN <<<<>>>> ELSE expired.levels
    IN IF bit = 0
       THEN expired
       ELSE [expired EXCEPT !.levels = [based EXCEPT ![1] = Append(@, <<1, expired.time>>)]]

\* Mutant of push_valid: the early return for a 0-bit is left out.
push_no_return(d, bit) ==
    LET expired == expire_old([d EXCEPT !.time = @ + 1])
        based == IF expired.levels = <<>> THEN <<<<>>>> ELSE expired.levels
        added == [based EXCEPT ![1] = Append(@, <<1, expired.time>>)]
    IN [expired EXCEPT !.levels = MergeCascade(added, 1)]

\* Mutant of push_valid: the old buckets are not expired.
push_no_expire(d, bit) ==
    LET ticked == [d EXCEPT !.time = @ + 1]
        based == IF ticked.levels = <<>> THEN <<<<>>>> ELSE ticked.levels
        added == [based EXCEPT ![1] = Append(@, <<1, ticked.time>>)]
    IN IF bit = 0
       THEN ticked
       ELSE [ticked EXCEPT !.levels = MergeCascade(added, 1)]

\* push for a bit of (0, 1): the result of the call.
push_valid(d, bit) ==
    LET ticked == [d EXCEPT !.time = @ + 1]
        expired == expire_old(ticked)
        based == IF expired.levels = <<>> THEN <<<<>>>> ELSE expired.levels
        added == [based EXCEPT ![1] = Append(@, <<1, expired.time>>)]
    IN IF bit = 0
       THEN expired
       ELSE [expired EXCEPT !.levels = MergeCascade(added, 1)]

\* push: time is incremented before the bit is validated, so a rejected bit
\* leaves the incremented counter behind.
DGIM_push(d, bit) ==
    IF bit \notin {0, 1}
    THEN [d EXCEPT !.time = @ + 1]
    ELSE push_valid(d, bit)

\* TRUE iff push(bit) raises ValueError.
DGIM_push_raises(bit) == bit \notin {0, 1}

\* The buckets of all levels as <<end_time, size>>, in level order.
Buckets(d) ==
    LET flat == Concat(d.levels)
    IN [i \in DOMAIN flat |-> <<flat[i][2], flat[i][1]>>]

\* Tuple order of Python on (end_time, size).
BucketLess(a, b) == a[1] < b[1] \/ (a[1] = b[1] /\ a[2] < b[2])

RECURSIVE SumSizes(_)
SumSizes(bs) == IF bs = <<>> THEN 0 ELSE Head(bs)[2] + SumSizes(Tail(bs))

\* Size of the first bucket of the sorted list (the last one the reversed
\* loop visits); 0 when there is no bucket.
OldestBucketSize(d) ==
    LET bs == Buckets(expire_old(d))
    IN IF bs = <<>> THEN 0
       ELSE LET i == CHOOSE j \in DOMAIN bs : \A l \in DOMAIN bs : ~BucketLess(bs[l], bs[j])
            IN bs[i][2]

\* Mutant of DGIM_estimate: the oldest bucket is counted in full.
estimate_no_half(d) == SumSizes(Buckets(expire_old(d)))

\* Mutant of DGIM_estimate: the whole oldest bucket is subtracted.
estimate_drop_oldest(d) ==
    LET e == expire_old(d)
    IN SumSizes(Buckets(e)) - OldestBucketSize(e)

\* Mutant of DGIM_estimate: half of the sum is subtracted, not half of the
\* oldest bucket.
estimate_half_total(d) ==
    LET e == expire_old(d)
    IN SumSizes(Buckets(e)) - (SumSizes(Buckets(e)) \div 2)

DGIM_estimate(d) ==
    LET e == expire_old(d)
    IN SumSizes(Buckets(e)) - (OldestBucketSize(e) \div 2)

\* Mutant of DGIM_estimate_state: the window is taken one tick too short, so
\* the query drops a bucket that is still live.
estimate_state_short_window(d) ==
    [d EXCEPT !.levels = [i \in DOMAIN @ |->
                             ExpireDeque(@[i], d.time - d.window_size + 1)]]

\* The DGIM once estimate() has returned: the call starts with _expire_old().
DGIM_estimate_state(d) == expire_old(d)

\* ------------------------------------------------------------------ CountMinSketch
\* table[r][c] is the counter of row r - 1 and column c.  The field hash
\* stands for the salts and the keyed blake2b of _hash: hash[r][item] is the
\* column int.from_bytes(digest) % width of item in row r - 1, the same for
\* every call, arbitrary otherwise.
CMS_new(width, depth, seed, hash) ==
    [width |-> width, depth |-> depth, seed |-> seed, hash |-> hash,
     table |-> [r \in 1..depth |-> [c \in 0..(width - 1) |-> 0]],
     total_count |-> 0]

CMS_hash(c, item, row) == c.hash[row][item]

\* TRUE iff add(item, count) raises ValueError.
CMS_add_raises(count) == count < 0

\* Mutant of CMS_add: every call counts as one occurrence.
CMS_add_ignores_count(c, item, count) ==
    IF count <= 0
    THEN c
    ELSE [c EXCEPT
            !.table = [r \in 1..c.depth |->
                          [c.table[r] EXCEPT ![CMS_hash(c, item, r)] = @ + 1]],
            !.total_count = @ + 1]

CMS_add(c, item, count) ==
    IF count < 0 \/ count = 0
    THEN c
    ELSE [c EXCEPT
            !.table = [r \in 1..c.depth |->
                          [c.table[r] EXCEPT ![CMS_hash(c, item, r)] = @ + count]],
            !.total_count = @ + count]

\* TRUE iff add_many(items, count) raises ValueError: the first add does.
CMS_add_many_raises(items, count) == items # <<>> /\ CMS_add_raises(count)

RECURSIVE CMS_add_many(_, _, _)
\* The sketch after add_many(items, count): add(it, count) for each item in
\* order; a negative count raises at the first item, before any change.
CMS_add_many(c, items, count) ==
    IF items = <<>> \/ CMS_add_raises(count)
    THEN c
    ELSE CMS_add_many(CMS_add(c, Head(items), count), Tail(items), count)

\* min(mins) if mins else 0
CMS_estimate(c, item) ==
    LET mins == [r \in 1..c.depth |-> c.table[r][CMS_hash(c, item, r)]]
    IN IF mins = <<>> THEN 0
       ELSE CHOOSE v \in {mins[r] : r \in DOMAIN mins} :
                \A r \in DOMAIN mins : v <= mins[r]

\* TRUE iff merge(other) raises ValueError (other is a CountMinSketch).
CMS_merge_raises(c, o) == <<c.width, c.depth, c.seed>> # <<o.width, o.depth, o.seed>>

\* Mutant of CMS_merge: total_count is added before the dimensions are checked.
merge_total_first(c, o) ==
    IF CMS_merge_raises(c, o)
    THEN [c EXCEPT !.total_count = @ + o.total_count]
    ELSE [c EXCEPT
            !.table = [r \in 1..c.depth |->
                          [col \in 0..(c.width - 1) |-> c.table[r][col] + o.table[r][col]]],
            !.total_count = @ + o.total_count]

\* Mutant of CMS_merge: only the first row is merged.
merge_first_row(c, o) ==
    IF CMS_merge_raises(c, o)
    THEN c
    ELSE [c EXCEPT
            !.table = [r \in 1..c.depth |->
                          [col \in 0..(c.width - 1) |->
                              IF r = 1 THEN c.table[r][col] + o.table[r][col]
                              ELSE c.table[r][col]]],
            !.total_count = @ + o.total_count]

\* The receiver after merge(other), also when the call raises; other is read
\* only.
CMS_merge(c, o) ==
    IF CMS_merge_raises(c, o)
    THEN c
    ELSE [c EXCEPT
            !.table = [r \in 1..c.depth |->
                          [col \in 0..(c.width - 1) |-> c.table[r][col] + o.table[r][col]]],
            !.total_count = @ + o.total_count]

\* ------------------------------------------------------------------ BloomFilter
\* What __init__ derives for a few (capacity, error_rate) pairs:
\*   m = -int(round(capacity * log(error_rate) / log(2) ** 2))
\*   k = max(1, int(round((m / capacity) * log(2))))
\* error_rate is given in hundredths.  (1, 0.90) rounds to m = 0.
BloomConfigs ==
    { [capacity |-> 1, error_rate |-> 90, m |-> 0, k |-> 1],
      [capacity |-> 1, error_rate |-> 50, m |-> 1, k |-> 1],
      [capacity |-> 1, error_rate |-> 40, m |-> 2, k |-> 1],
      [capacity |-> 2, error_rate |-> 50, m |-> 3, k |-> 1],
      [capacity |-> 1, error_rate |-> 30, m |-> 3, k |-> 2] }

\* bits[i + 1] is byte i of the bytearray, a number of 0..255.
Bloom_new(cfg) ==
    [capacity |-> cfg.capacity, error_rate |-> cfg.error_rate,
     m |-> cfg.m, k |-> cfg.k,
     bits |-> [i \in 1..((cfg.m + 7) \div 8) |-> 0]]

\* _hashes: the k indices of item.  bloomH1 and bloomH2 are the two keyed
\* hashes; only their residues modulo m reach the result.
hashes(b, item) ==
    [j \in 1..b.k |->
        (bloomH1[item] + (j - 1) * bloomH2[item] + (j - 1) * (j - 1)) % b.m]

\* _hashes divides by m as soon as the first index is asked for.
hashes_raises(b) == b.m = 0 /\ b.k >= 1

\* TRUE iff bit bit_index of the number byte is set.
TestBit(byte, bit_index) == (byte \div Pow2(bit_index)) % 2 = 1

\* byte | (1 << bit_index)
OrBit(byte, bit_index) ==
    IF TestBit(byte, bit_index) THEN byte ELSE byte + Pow2(bit_index)

set_bit(bits, idx) ==
    LET byte_index == idx \div 8
        bit_index == idx % 8
    IN [bits EXCEPT ![byte_index + 1] = OrBit(@, bit_index)]

get_bit(bits, idx) ==
    LET byte_index == idx \div 8
        bit_index == idx % 8
    IN TestBit(bits[byte_index + 1], bit_index)

RECURSIVE SetBits(_, _)
\* for idx in idxs: self._set_bit(idx)
SetBits(bits, idxs) ==
    IF idxs = <<>> THEN bits ELSE SetBits(set_bit(bits, Head(idxs)), Tail(idxs))

\* Mutant of Bloom_add: the bit array holds the bits of the latest item only.
Bloom_add_overwrites(b, item) ==
    IF hashes_raises(b) THEN b
    ELSE [b EXCEPT !.bits = SetBits([i \in DOMAIN b.bits |-> 0], hashes(b, item))]

\* add; the filter is left as it was when _hashes raises ZeroDivisionError.
Bloom_add(b, item) ==
    IF hashes_raises(b) THEN b
    ELSE [b EXCEPT !.bits = SetBits(@, hashes(b, item))]

RECURSIVE Bloom_add_many(_, _)
\* add_many: the items are added in order; the first add that raises ends it.
Bloom_add_many(b, items) ==
    IF items = <<>> THEN b ELSE Bloom_add_many(Bloom_add(b, Head(items)), Tail(items))

\* __contains__, for a filter on which _hashes does not raise.
Bloom_contains(b, item) ==
    \A j \in 1..b.k : get_bit(b.bits, hashes(b, item)[j])

RECURSIVE PopCount(_)
\* int(v).bit_count()
PopCount(v) == IF v = 0 THEN 0 ELSE (v % 2) + PopCount(v \div 2)

RECURSIVE SumPopCount(_)
SumPopCount(bits) ==
    IF bits = <<>> THEN 0 ELSE PopCount(Head(bits)) + SumPopCount(Tail(bits))

\* fill_ratio divides by m.
fill_ratio_raises(b) == b.m = 0

fill_ratio(b) == Ratio(SumPopCount(b.bits), b.m)

\* ------------------------------------------------------------------ token_handler
\* A text is a sequence of tokens and whitespace runs; between two tokens
\* that follow each other a single space is understood.
WS == " "

RECURSIVE split_preprocessed_tokens(_)
\* [t for t in text.split() if t]; the empty text gives [].
split_preprocessed_tokens(text) ==
    IF text = <<>> THEN <<>>
    ELSE IF Head(text) = WS THEN split_preprocessed_tokens(Tail(text))
    ELSE <<Head(text)>> \o split_preprocessed_tokens(Tail(text))

\* ------------------------------------------------------------------ DuplicateDetector
\* A shingle " ".join(tokens[i : i + k]) is the sequence of its tokens; a
\* token has no whitespace in it, so the join loses nothing.
shingles(tokens, k) ==
    IF k <= 1
    THEN [i \in 1..Len(tokens) |-> <<tokens[i]>>]
    ELSE [i \in 1..Max(0, Len(tokens) - k + 1) |-> SubSeq(tokens, i, i + k - 1)]

\* TRUE iff DuplicateDetector(...) raises ValueError: __init__ tests
\* duplicate_threshold, BloomFilter.__init__ tests capacity and error_rate
\* (a percentage here); shingle_size is converted with int() and not tested.
Dup_new_raises(cfg, shingle_size, duplicate_threshold) ==
    \/ ~(0 < duplicate_threshold[1] /\ duplicate_threshold[1] <= duplicate_threshold[2])
    \/ cfg.capacity <= 0
    \/ ~(0 < cfg.error_rate /\ cfg.error_rate < 100)

\* duplicate_threshold is the fraction <<numerator, denominator>>.
Dup_new(cfg, shingle_size, duplicate_threshold) ==
    [bloom |-> Bloom_new(cfg), shingle_size |-> shingle_size,
     duplicate_threshold |-> duplicate_threshold]

to_shingles(d, text) == shingles(split_preprocessed_tokens(text), d.shingle_size)

\* is_duplicate raises iff a shingle is looked up in a filter with m = 0.
is_duplicate_raises(d, text) == to_shingles(d, text) # <<>> /\ hashes_raises(d.bloom)

\* is_duplicate: <<flag, ratio>>.
is_duplicate(d, text) ==
    LET sh == to_shingles(d, text)
        hits == Cardinality({i \in DOMAIN sh : Bloom_contains(d.bloom, sh[i])})
        ratio == Ratio(hits, Len(sh))
    IN IF sh = <<>> THEN <<FALSE, <<0, 1>>>>
       ELSE <<RatioGeq(ratio, d.duplicate_threshold), ratio>>

\* observe_message raises in is_duplicate, or else in fill_ratio.
observe_message_raises(d, text) ==
    is_duplicate_raises(d, text) \/ fill_ratio_raises(d.bloom)

\* The detector after observe_message(text), also when the call raises.
Dup_observe_state(d, text) ==
    IF is_duplicate_raises(d, text) THEN d
    ELSE [d EXCEPT !.bloom = Bloom_add_many(@, to_shingles(d, text))]

\* Mutant of Dup_observe_result: the shingles are inserted before the query.
observe_result_insert_first(d, text) ==
    LET after == Dup_observe_state(d, text)
        r == is_duplicate(after, text)
    IN [is_duplicate |-> r[1], duplicate_score |-> r[2],
        fill_ratio |-> fill_ratio(after.bloom)]

\* Mutant of Dup_observe_result: the score is the number of hits over the
\* number of tokens, not over the number of shingles.
observe_result_per_token(d, text) ==
    LET sh == to_shingles(d, text)
        toks == split_preprocessed_tokens(text)
        hits == Cardinality({i \in DOMAIN sh : Bloom_contains(d.bloom, sh[i])})
        ratio == IF toks = <<>> THEN <<0, 1>> ELSE Ratio(hits, Len(toks))
    IN [is_duplicate |-> RatioGeq(ratio, d.duplicate_threshold),
        duplicate_score |-> ratio,
        fill_ratio |-> fill_ratio(Dup_observe_state(d, text).bloom)]

\* What observe_message(text) returns when it does not raise.
Dup_observe_result(d, text) ==
    LET r == is_duplicate(d, text)
    IN [is_duplicate |-> r[1], duplicate_score |-> r[2],
        fill_ratio |-> fill_ratio(Dup_observe_state(d, text).bloom)]

\* ------------------------------------------------------------------ dict
\* A dict is the sequence of its <<key, value>> items in insertion order.
DictKeys(d) == {d[i][1] : i \in DOMAIN d}

DictHas(d, key) == key \in DictKeys(d)

\* d[key], for a key of d.
DictGet(d, key) == d[CHOOSE i \in DOMAIN d : d[i][1] = key][2]

\* d[key] = value: a key of d keeps its place, a new key goes last.
DictSet(d, key, value) ==
    IF DictHas(d, key)
    THEN [i \in DOMAIN d |-> IF d[i][1] = key THEN <<key, value>> ELSE d[i]]
    ELSE Append(d, <<key, value>>)

\* del d[key], for a key of d.
DictDel(d, key) == SelectSeq(d, LAMBDA item : item[1] # key)

\* min(d, key=d.get): the first key, in insertion order, of the least value.
DictMinKey(d) ==
    LET i == CHOOSE j \in DOMAIN d :
                 /\ \A l \in DOMAIN d : d[j][2] <= d[l][2]
                 /\ \A l \in DOMAIN d : l < j => d[j][2] < d[l][2]
    IN d[i][1]

\* ------------------------------------------------------------------ BurstDetector
Burst_new(window_size, top_k_tokens, burst_threshold, report_top_n, promotion_threshold) ==
    [window_size |-> window_size, top_k_tokens |-> top_k_tokens,
     burst_threshold |-> burst_threshold, report_top_n |-> report_top_n,
     promotion_threshold |-> promotion_threshold,
     dgim_instances |-> <<>>, tracked_tokens |-> {}, heap |-> <<>>,
     candidate_tokens |-> <<>>, message_count |-> 0]

\* set(tokens)
SeenInMessage(text) ==
    LET tokens == split_preprocessed_tokens(text)
    IN {tokens[i] : i \in DOMAIN tokens}

RECURSIVE BumpCandidates(_, _, _)
\* The loop over seen_in_message, visited in the order given.
BumpCandidates(candidates, tracked, order) ==
    IF order = <<>> THEN candidates
    ELSE LET token == Head(order)
             old == IF DictHas(candidates, token) THEN DictGet(candidates, token) ELSE 0
         IN BumpCandidates(
                IF token \notin tracked THEN DictSet(candidates, token, old + 1)
                ELSE candidates,
                tracked, Tail(order))

\* Mutant of Burst_observe_message: the DGIM of a tracked token that is absent
\* from the message receives no bit.
observe_skips_absent(b, text, order) ==
    LET seen_in_message == SeenInMessage(text)
    IN [b EXCEPT
          !.dgim_instances =
              [i \in DOMAIN @ |->
                  IF @[i][1] \in b.tracked_tokens /\ @[i][1] \in seen_in_message
                  THEN <<@[i][1], DGIM_push(@[i][2], 1)>>
                  ELSE @[i]],
          !.candidate_tokens = BumpCandidates(@, b.tracked_tokens, order),
          !.message_count = @ + 1]

\* observe_message(text); order is the order in which the set
\* seen_in_message is iterated.
Burst_observe_message(b, text, order) ==
    LET seen_in_message == SeenInMessage(text)
    IN [b EXCEPT
          !.dgim_instances =
              [i \in DOMAIN @ |->
                  IF @[i][1] \in b.tracked_tokens
                  THEN <<@[i][1],
                         DGIM_push(@[i][2], IF @[i][1] \in seen_in_message THEN 1 ELSE 0)>>
                  ELSE @[i]],
          !.candidate_tokens = BumpCandidates(@, b.tracked_tokens, order),
          !.message_count = @ + 1]

RECURSIVE PushOnes(_, _)
\* for _ in range(count): dgim.push(1)
PushOnes(d, count) == IF count <= 0 THEN d ELSE PushOnes(DGIM_push(d, 1), count - 1)

\* Mutant of promote_token: the fresh DGIM is not seeded with the count.
promote_no_seed(b, token, count) ==
    [b EXCEPT !.dgim_instances = DictSet(@, token, DGIM_new(b.window_size)),
              !.tracked_tokens = @ \cup {token}]

promote_token(b, token, count) ==
    LET d == PushOnes(DGIM_new(b.window_size), count)
    IN [b EXCEPT !.dgim_instances = DictSet(@, token, d),
                 !.tracked_tokens = @ \cup {token}]

\* Mutant of has_room: the bound is tested with <=.
has_room_off_by_one(b) == Len(b.dgim_instances) <= b.top_k_tokens

\* len(self._dgim_instances) < self.top_k_tokens
has_room(b) == Len(b.dgim_instances) < b.top_k_tokens

\* One candidate of the snapshot.  st.b is the detector, st.est the dict
\* current_estimates, st.err the exception raised so far.
ProcessCandidate(st, token, count) ==
    IF count < st.b.promotion_threshold THEN st
    ELSE IF has_room(st.b)
    THEN [st EXCEPT !.b = promote_token(@, token, count)]
    ELSE IF st.est = <<>>
    THEN [st EXCEPT !.err = "ValueError"]
    ELSE LET min_token == DictMinKey(st.est)
             min_estimate == DictGet(st.est, min_token)
             evicted == [st.b EXCEPT !.dgim_instances = DictDel(@, min_token),
                                     !.tracked_tokens = @ \ {min_token}]
             replaced == IF count > min_estimate
                         THEN [st EXCEPT !.b = promote_token(evicted, token, count),
                                         !.est = DictDel(@, min_token)]
                         ELSE st
         IN [replaced EXCEPT !.b.candidate_tokens = DictDel(@, token)]

RECURSIVE ProcessCandidates(_, _)
\* The loop over list(self._candidate_tokens.items()); it ends at the first
\* exception.
ProcessCandidates(st, items) ==
    IF items = <<>> \/ st.err # "none" THEN st
    ELSE ProcessCandidates(ProcessCandidate(st, Head(items)[1], Head(items)[2]), Tail(items))

\* The loop's state at its start: current_estimates is computed first, and
\* estimate() expires the old buckets of each instance.
UpdateStart(b) ==
    LET queried == [b EXCEPT !.dgim_instances =
                       [i \in DOMAIN @ |-> <<@[i][1], expire_old(@[i][2])>>]]
        current_estimates ==
            [i \in DOMAIN b.dgim_instances |->
                <<b.dgim_instances[i][1], DGIM_estimate(b.dgim_instances[i][2])>>]
    IN [b |-> queried, est |-> current_estimates, err |-> "none"]

\* The loop's state at its end.
UpdateLoop(b) == ProcessCandidates(UpdateStart(b), UpdateStart(b).b.candidate_tokens)

\* The exception update_tracked_tokens raises, "none" if it returns.
update_tracked_tokens_raises(b) == UpdateLoop(b).err

\* The detector after update_tracked_tokens, also when it raises: the decay
\* loop runs only when the first loop ended without exception.
update_tracked_tokens(b) ==
    LET st == UpdateLoop(b)
    IN IF st.err # "none" THEN st.b
       ELSE [st.b EXCEPT !.candidate_tokens =
                [i \in DOMAIN @ |-> <<@[i][1], Max(0, @[i][2] - 1)>>]]

\* ------------------------------------------------------------------ BurstDetector queries
RECURSIVE InsertDesc(_, _)
\* Where the stable descending sort puts item: after the items whose count
\* is greater or equal.
InsertDesc(sorted, item) ==
    IF sorted = <<>> THEN <<item>>
    ELSE IF Head(sorted)[2] >= item[2]
    THEN <<Head(sorted)>> \o InsertDesc(Tail(sorted), item)
    ELSE <<item>> \o sorted

RECURSIVE SortDesc(_)
\* burst_terms.sort(key=lambda x: x[1], reverse=True)
SortDesc(items) ==
    IF items = <<>> THEN <<>>
    ELSE InsertDesc(SortDesc(SubSeq(items, 1, Len(items) - 1)), items[Len(items)])

\* s[:n]
Slice(s, n) ==
    IF n >= 0 THEN SubSeq(s, 1, Min(n, Len(s))) ELSE SubSeq(s, 1, Max(0, Len(s) + n))

\* Mutant of get_burst_terms: the burst terms are truncated without sorting.
get_burst_terms_unsorted(b, top_n) ==
    LET counted == [i \in DOMAIN b.dgim_instances |->
                       <<b.dgim_instances[i][1], DGIM_estimate(b.dgim_instances[i][2])>>]
        burst_terms == SelectSeq(counted, LAMBDA x : x[2] >= b.burst_threshold)
    IN Slice(burst_terms, top_n)

\* get_burst_terms(top_n), top_n given.
get_burst_terms(b, top_n) ==
    LET counted == [i \in DOMAIN b.dgim_instances |->
                       <<b.dgim_instances[i][1], DGIM_estimate(b.dgim_instances[i][2])>>]
        burst_terms == SelectSeq(counted, LAMBDA x : x[2] >= b.burst_threshold)
    IN Slice(SortDesc(burst_terms), top_n)

is_burst(b) ==
    \E i \in DOMAIN b.dgim_instances :
        DGIM_estimate(b.dgim_instances[i][2]) >= b.burst_threshold

\* get_burst_summary(); get_burst_terms() takes report_top_n for top_n.
get_burst_summary(b) ==
    LET burst_terms == get_burst_terms(b, b.report_top_n)
    IN [active |-> is_burst(b),
        token |-> [i \in DOMAIN burst_terms |->
                      burst_terms[i][1] \o ": " \o ToString(burst_terms[i][2])]]

\* The detector once get_burst_terms has returned: estimate() is called on
\* every instance.
get_burst_terms_state(b) ==
    [b EXCEPT !.dgim_instances =
        [i \in DOMAIN @ |-> <<@[i][1], DGIM_estimate_state(@[i][2])>>]]

\* The detector once is_burst has returned: estimate() is called on the
\* instances, in dict order, up to the first one that reaches the threshold.
is_burst_state(b) ==
    LET hit(i) == DGIM_estimate(b.dgim_instances[i][2]) >= b.burst_threshold
    IN [b EXCEPT !.dgim_instances =
           [i \in DOMAIN @ |->
               IF \E j \in 1..(i - 1) : hit(j) THEN @[i]
               ELSE <<@[i][1], DGIM_estimate_state(@[i][2])>>]]

\* The detector once get_burst_summary has returned: get_burst_terms(), then
\* is_burst().
get_burst_summary_state(b) == is_burst_state(get_burst_terms_state(b))

\* ------------------------------------------------------------------ heapq
\* A heap is the list heapq keeps; position p of the list is element p + 1 of
\* the sequence.  Its items are the tuples <<count, token>>.
\* The code points that order the tokens: "A" < "a" < "b" < "c".
StrRank == [A |-> 65, a |-> 97, b |-> 98, c |-> 99]

\* x < y for tuples (count, token)
ItemLess(x, y) == x[1] < y[1] \/ (x[1] = y[1] /\ StrRank[x[2]] < StrRank[y[2]])

RECURSIVE SiftDownLoop(_, _, _, _)
\* The loop of _siftdown: newitem moves from pos towards startpos past the
\* parents greater than it.
SiftDownLoop(heap, startpos, pos, newitem) ==
    IF pos > startpos
    THEN LET parentpos == (pos - 1) \div 2
             parent == heap[parentpos + 1]
         IN IF ItemLess(newitem, parent)
            THEN SiftDownLoop([heap EXCEPT ![pos + 1] = parent], startpos, parentpos, newitem)
            ELSE [heap EXCEPT ![pos + 1] = newitem]
    ELSE [heap EXCEPT ![pos + 1] = newitem]

siftdown(heap, startpos, pos) == SiftDownLoop(heap, startpos, pos, heap[pos + 1])

RECURSIVE SiftUpLoop(_, _, _)
\* The loop of _siftup: the smaller child moves up until a leaf is reached;
\* the result is the list and the position of that leaf.
SiftUpLoop(heap, pos, childpos) ==
    IF childpos < Len(heap)
    THEN LET rightpos == childpos + 1
             smaller == IF /\ rightpos < Len(heap)
                           /\ ~ItemLess(heap[childpos + 1], heap[rightpos + 1])
                        THEN rightpos ELSE childpos
         IN SiftUpLoop([heap EXCEPT ![pos + 1] = heap[smaller + 1]], smaller, 2 * smaller + 1)
    ELSE <<heap, pos>>

siftup(heap, pos) ==
    LET newitem == heap[pos + 1]
        leaf == SiftUpLoop(heap, pos, 2 * pos + 1)
    IN siftdown([leaf[1] EXCEPT ![leaf[2] + 1] = newitem], pos, leaf[2])

heappush(heap, item) == siftdown(Append(heap, item), 0, Len(heap))

\* heapreplace(heap, item), for a heap that is not empty.
heapreplace(heap, item) == siftup([heap EXCEPT ![1] = item], 0)

RECURSIVE HeapifyFrom(_, _)
\* for i in reversed(range(n // 2)): _siftup(x, i), from position i down.
HeapifyFrom(x, i) == IF i < 0 THEN x ELSE HeapifyFrom(siftup(x, i), i - 1)

heapify(x) == HeapifyFrom(x, (Len(x) \div 2) - 1)

\* ------------------------------------------------------------------ FrequencyDetector
\* The detector over the sketch c, which from_error_delta builds from epsilon
\* and delta (width and depth at least 1).
Freq_new(c, top_k) ==
    [cms |-> c, top_k |-> top_k, top_tokens |-> <<>>, heap |-> <<>>,
     message_count |-> 0]

RECURSIVE AddTokens(_, _)
\* for token in tokens: self.cms.add(token)
AddTokens(c, tokens) ==
    IF tokens = <<>> THEN c ELSE AddTokens(CMS_add(c, Head(tokens), 1), Tail(tokens))

\* Mutant of Freq_observe_message: a token is added once per message, however
\* often the message holds it.
observe_distinct_tokens(f, text) ==
    LET tokens == split_preprocessed_tokens(text)
        firsts == SelectSeq([i \in DOMAIN tokens |->
                                IF \E j \in 1..(i - 1) : tokens[j] = tokens[i]
                                THEN WS ELSE tokens[i]],
                            LAMBDA t : t # WS)
    IN [f EXCEPT !.cms = AddTokens(@, firsts), !.message_count = @ + 1]

\* Mutant of Freq_observe_message: a message without tokens is not counted.
observe_skips_empty(f, text) ==
    IF split_preprocessed_tokens(text) = <<>> THEN f
    ELSE [f EXCEPT !.cms = AddTokens(@, split_preprocessed_tokens(text)),
                   !.message_count = @ + 1]

Freq_observe_message(f, text) ==
    [f EXCEPT !.cms = AddTokens(@, split_preprocessed_tokens(text)),
              !.message_count = @ + 1]

\* Mutant of top_has_room: the bound is tested with <=.
top_has_room_off_by_one(f) == Len(f.top_tokens) <= f.top_k

\* len(self._top_tokens) < self.top_k
top_has_room(f) == Len(f.top_tokens) < f.top_k

\* One token of _update_top_tokens.  st.f is the detector, st.err the
\* exception raised so far.
UpdateTopToken(st, token) ==
    LET f == st.f
        current_count == CMS_estimate(f.cms, token)
    IN IF DictHas(f.top_tokens, token)
       THEN [st EXCEPT !.f.top_tokens = DictSet(@, token, current_count)]
       ELSE IF top_has_room(f)
       THEN [st EXCEPT !.f.top_tokens = DictSet(@, token, current_count),
                       !.f.heap = heappush(@, <<current_count, token>>)]
       ELSE IF f.heap = <<>>
       THEN [st EXCEPT !.err = "IndexError"]
       ELSE LET min_count == f.heap[1][1]
                min_token == f.heap[1][2]
            IN IF current_count > min_count
               THEN LET replaced == [st EXCEPT !.f.heap =
                                        heapreplace(@, <<current_count, token>>)]
                    IN IF ~DictHas(f.top_tokens, min_token)
                       THEN [replaced EXCEPT !.err = "KeyError"]
                       ELSE [replaced EXCEPT !.f.top_tokens =
                                DictSet(DictDel(@, min_token), token, current_count)]
               ELSE st

RECURSIVE UpdateTopLoop(_, _)
\* The loop over tokens; it ends at the first exception.
UpdateTopLoop(st, tokens) ==
    IF tokens = <<>> \/ st.err # "none" THEN st
    ELSE UpdateTopLoop(UpdateTopToken(st, Head(tokens)), Tail(tokens))

\* The exception _update_top_tokens(tokens) raises, "none" if it returns.
update_top_tokens_raises(f, tokens) ==
    UpdateTopLoop([f |-> f, err |-> "none"], tokens).err

\* The detector after _update_top_tokens(tokens), also when it raises: the
\* heap is rebuilt only when the loop ended without exception.
update_top_tokens(f, tokens) ==
    LET st == UpdateTopLoop([f |-> f, err |-> "none"], tokens)
    IN IF st.err # "none" THEN st.f
       ELSE [st.f EXCEPT !.heap =
                heapify([i \in DOMAIN st.f.top_tokens |->
                            <<st.f.top_tokens[i][2], st.f.top_tokens[i][1]>>])]

periodic_update_raises(f, recent_tokens) == update_top_tokens_raises(f, recent_tokens)

periodic_update(f, recent_tokens) == update_top_tokens(f, recent_tokens)

\* get_frequency_analysis(top_n): the dict of the top_n tracked tokens with
\* their current estimates, greatest first.
get_frequency_analysis(f, top_n) ==
    LET snapshot == [i \in DOMAIN f.top_tokens |->
                        <<f.top_tokens[i][1], CMS_estimate(f.cms, f.top_tokens[i][1])>>]
    IN Slice(SortDesc(snapshot), top_n)

\* term.lower()
Lower(term) == IF term = "A" THEN "a" ELSE term

estimate_frequency(f, term) == CMS_estimate(f.cms, Lower(term))

RECURSIVE estimate_batch(_, _)
\* {t: self.estimate_frequency(t) for t in terms}
estimate_batch(f, terms) ==
    IF terms = <<>> THEN <<>>
    ELSE DictSet(estimate_batch(f, SubSeq(terms, 1, Len(terms) - 1)),
                 terms[Len(terms)], estimate_frequency(f, terms[Len(terms)]))

\* ------------------------------------------------------------------ StreamingPipeline
Pipeline_new(f, b, d) ==
    [frequency_detector |-> f, burst_detector |-> b, duplicate_detector |-> d]

\* The three observe_message calls of process_message, in the order given by
\* first, second, third (each one of "frequency", "burst", "duplicate").
ObserveCalls(first, second, third) ==
    <<first \o "_detector.observe_message", second \o "_detector.observe_message",
      third \o "_detector.observe_message">>

\* Mutant of ObservedTrace: the burst detector is fed before the frequency
\* detector.
observed_trace_burst_first(p) == ObserveCalls("burst", "frequency", "duplicate")

\* The calls of lines 35-37, in the order the code makes them.
ObservedTrace(p) == ObserveCalls("frequency", "burst", "duplicate")

\* process_message(text, frequency_queries); order is the order in which the
\* burst detector iterates its set of tokens.  The result holds the pipeline
\* after the call (p), the calls made on the detectors (trace), the exception
\* raised (err) and <<the returned dict>> (out, <<>> when the call raises).
\* BurstDetector has no attribute detect_spikes: line 44 raises AttributeError.
process_message(p, text, frequency_queries, order) ==
    LET observed ==
            [frequency_detector |-> Freq_observe_message(p.frequency_detector, text),
             burst_detector |-> Burst_observe_message(p.burst_detector, text, order),
             duplicate_detector |-> Dup_observe_state(p.duplicate_detector, text)]
        queried == IF frequency_queries # <<>>
                   THEN Append(ObservedTrace(p), "frequency_detector.estimate_batch")
                   ELSE ObservedTrace(p)
    IN IF observe_message_raises(p.duplicate_detector, text)
       THEN [p |-> observed, trace |-> ObservedTrace(p),
             err |-> "ZeroDivisionError", out |-> <<>>]
       ELSE [p |-> observed, trace |-> Append(queried, "burst_detector.detect_spikes"),
             err |-> "AttributeError", out |-> <<>>]

\* ------------------------------------------------------------------ DGIM specification
WindowSizes == (1..MaxWindow) \cup {16}

\* The last n elements of s.
LastN(s, n) == IF Len(s) <= n THEN s ELSE SubSeq(s, Len(s) - n + 1, Len(s))

DgimInit ==
    /\ \E w \in WindowSizes : dgim = DGIM_new(w)
    /\ stream = <<>>
    /\ preDgim = dgim
    /\ lastBit = -1
    /\ raised = "none"
    /\ CmsIdle /\ HashIdle /\ BloomIdle /\ DupIdle /\ BurstIdle /\ RestIdle

DgimPush(bit) ==
    /\ dgim.time < MaxTime
    /\ dgim' = DGIM_push(dgim, bit)
    /\ stream' = LastN(Append(stream, bit), dgim.window_size)
    /\ preDgim' = dgim
    /\ lastBit' = bit
    /\ raised' = IF DGIM_push_raises(bit) THEN "ValueError" ELSE "none"
    /\ UNCHANGED <<cmsVars, hashVars, bloomVars, dupVars, burstVars, restVars>>

PushOne == DgimPush(1)

PushZero == DgimPush(0)

DgimNext == PushOne \/ PushZero

SpecDGIM == DgimInit /\ [][DgimNext]_vars

\* The bits outside (0, 1) that push is called with.
InvalidBits == {2, 3}

\* push(bit) with a bit that is rejected; the stream of accepted bits stays.
PushInvalid(bit) ==
    /\ dgim.time < MaxTime
    /\ dgim' = DGIM_push(dgim, bit)
    /\ preDgim' = dgim
    /\ lastBit' = bit
    /\ raised' = IF DGIM_push_raises(bit) THEN "ValueError" ELSE "none"
    /\ UNCHANGED stream
    /\ UNCHANGED <<cmsVars, hashVars, bloomVars, dupVars, burstVars, restVars>>

DgimRejectNext == DgimNext \/ \E bit \in InvalidBits : PushInvalid(bit)

\* The DGIM under valid and invalid pushes.
SpecDgimReject == DgimInit /\ [][DgimRejectNext]_vars

\* ------------------------------------------------------------------ CountMinSketch specification
CmsItems == {"a", "b", "A"}

\* The depths explored.
Depths == {1, 2}

\* The counts add is called with; -1 is rejected.
Counts == {-1, 0, 1, 2}

CmsInit ==
    /\ \E width \in 1..MaxWidth, depth \in Depths :
         \E hash \in [1..depth -> [CmsItems -> 0..(width - 1)]] :
            cms = CMS_new(width, depth, 0, hash)
    /\ trueCount = [x \in CmsItems |-> 0]
    /\ raised = "none"
    /\ DgimIdle /\ HashIdle /\ BloomIdle /\ DupIdle /\ BurstIdle /\ RestIdle

CmsAdd(item, count) ==
    /\ cms.total_count + count <= MaxTotal
    /\ cms' = CMS_add(cms, item, count)
    /\ trueCount' = IF CMS_add_raises(count) THEN trueCount
                    ELSE [trueCount EXCEPT ![item] = @ + count]
    /\ raised' = IF CMS_add_raises(count) THEN "ValueError" ELSE "none"
    /\ UNCHANGED <<dgimVars, hashVars, bloomVars, dupVars, burstVars, restVars>>

\* The item lists add_many is called with: up to MaxItems items.
ItemLists == UNION {[1..n -> CmsItems] : n \in 0..MaxItems}

RECURSIVE CountMany(_, _, _)
\* The true counts after count more occurrences of each item of items.
CountMany(tc, items, count) ==
    IF items = <<>> THEN tc
    ELSE CountMany([tc EXCEPT ![Head(items)] = @ + count], Tail(items), count)

\* add_many(items, count)
CmsAddMany(items, count) ==
    /\ cms.total_count + Len(items) * count <= MaxTotal
    /\ cms' = CMS_add_many(cms, items, count)
    /\ trueCount' = IF CMS_add_many_raises(items, count) THEN trueCount
                    ELSE CountMany(trueCount, items, count)
    /\ raised' = IF CMS_add_many_raises(items, count) THEN "ValueError" ELSE "none"
    /\ UNCHANGED <<dgimVars, hashVars, bloomVars, dupVars, burstVars, restVars>>

CmsNext ==
    \/ \E item \in CmsItems, count \in Counts : CmsAdd(item, count)
    \/ \E items \in ItemLists, count \in Counts : CmsAddMany(items, count)

SpecCMS == CmsInit /\ [][CmsNext]_vars

\* ------------------------------------------------------------------ CountMinSketch.merge specification
MergeItems == {"a", "b"}

MergeWidths == {1, 2}

Seeds == {0, 1}

\* The counts add is called with; -1 is rejected.
MergeCounts == {-1, 1, 2}

\* The sketches of one (width, depth, seed), for every hash assignment.
Sketches ==
    {CMS_new(width, depth, seed, hash) :
        width \in MergeWidths, depth \in Depths, seed \in Seeds,
        hash \in UNION {[1..d -> [MergeItems -> 0..(w - 1)]] : d \in Depths, w \in MergeWidths}}

\* The salt of a row depends on the seed and the row only, and the column is
\* the digest modulo width: two sketches of one seed and width agree on the
\* rows they both have.
SameHash(c, o) ==
    <<c.width, c.seed>> = <<o.width, o.seed>> =>
        \A r \in 1..Min(c.depth, o.depth) : c.hash[r] = o.hash[r]

WellFormed(c) == c.hash \in [1..c.depth -> [MergeItems -> 0..(c.width - 1)]]

MergeInit ==
    /\ cms \in {c \in Sketches : WellFormed(c) /\ c.seed = 0}
    /\ other \in {o \in Sketches : WellFormed(o) /\ SameHash(cms, o)}
    /\ preCms = cms /\ preOther = other
    /\ fed = <<<<>>, <<>>>>
    /\ lastCall = "none"
    /\ raised = "none"
    /\ trueCount = Idle
    /\ burst = Idle /\ preBurst = Idle
    /\ DgimIdle /\ HashIdle /\ BloomIdle /\ DupIdle /\ FreqIdle /\ PipeIdle /\ QueryIdle

MergeFrame ==
    /\ UNCHANGED <<trueCount, burst, preBurst>>
    /\ UNCHANGED <<dgimVars, hashVars, bloomVars, dupVars, freqVars, pipeVars, queryVars>>

\* add(item, count) on the receiving sketch.
MergeAddSelf(item, count) ==
    /\ cms.total_count + count <= MaxMergeTotal
    /\ cms' = CMS_add(cms, item, count)
    /\ fed' = IF CMS_add_raises(count) THEN fed
              ELSE <<Append(fed[1], <<item, count>>), fed[2]>>
    /\ preCms' = cms /\ preOther' = other
    /\ lastCall' = "add"
    /\ raised' = IF CMS_add_raises(count) THEN "ValueError" ELSE "none"
    /\ UNCHANGED other
    /\ MergeFrame

\* add(item, count) on the other sketch.
MergeAddOther(item, count) ==
    /\ other.total_count + count <= MaxMergeTotal
    /\ other' = CMS_add(other, item, count)
    /\ fed' = IF CMS_add_raises(count) THEN fed
              ELSE <<fed[1], Append(fed[2], <<item, count>>)>>
    /\ preCms' = cms /\ preOther' = other
    /\ lastCall' = "add_other"
    /\ raised' = IF CMS_add_raises(count) THEN "ValueError" ELSE "none"
    /\ UNCHANGED cms
    /\ MergeFrame

\* cms.merge(other)
Merge ==
    /\ cms.total_count + other.total_count <= MaxMergeTotal
    /\ cms' = CMS_merge(cms, other)
    /\ fed' = IF CMS_merge_raises(cms, other) THEN fed
              ELSE <<fed[1] \o fed[2], fed[2]>>
    /\ preCms' = cms /\ preOther' = other
    /\ lastCall' = "merge"
    /\ raised' = IF CMS_merge_raises(cms, other) THEN "ValueError" ELSE "none"
    /\ UNCHANGED other
    /\ MergeFrame

MergeNext ==
    \/ \E item \in MergeItems, count \in MergeCounts : MergeAddSelf(item, count)
    \/ \E item \in MergeItems, count \in MergeCounts : MergeAddOther(item, count)
    \/ Merge

SpecMerge == MergeInit /\ [][MergeNext]_vars

\* ------------------------------------------------------------------ BloomFilter specification
BloomItems == {<<"a">>, <<"b">>, <<"c">>}

\* Every pair of hash functions on items, up to residues modulo m.  With
\* k = 1 the second hash is only ever multiplied by 0, and is left at 0.
HashInit(items, m, k) ==
    /\ bloomH1 \in [items -> 0..(Max(m, 1) - 1)]
    /\ bloomH2 \in [items -> 0..(IF k = 1 THEN 0 ELSE Max(m, 1) - 1)]

BloomInit ==
    /\ \E cfg \in BloomConfigs : bloom = Bloom_new(cfg) /\ HashInit(BloomItems, cfg.m, cfg.k)
    /\ passed = {}
    /\ raised = "none"
    /\ DgimIdle /\ CmsIdle /\ DupIdle /\ BurstIdle /\ RestIdle

BloomAdd(item) ==
    /\ bloom' = Bloom_add(bloom, item)
    /\ passed' = IF hashes_raises(bloom) THEN passed ELSE passed \cup {item}
    /\ raised' = IF hashes_raises(bloom) THEN "ZeroDivisionError" ELSE "none"
    /\ UNCHANGED <<dgimVars, cmsVars, hashVars, dupVars, burstVars, restVars>>

BloomAddMany(items) ==
    /\ items # <<>>
    /\ bloom' = Bloom_add_many(bloom, items)
    /\ passed' = IF hashes_raises(bloom) THEN passed
                 ELSE passed \cup {items[i] : i \in DOMAIN items}
    /\ raised' = IF hashes_raises(bloom) THEN "ZeroDivisionError" ELSE "none"
    /\ UNCHANGED <<dgimVars, cmsVars, hashVars, dupVars, burstVars, restVars>>

BloomNext ==
    \/ \E item \in BloomItems : BloomAdd(item)
    \/ \E x \in BloomItems, y \in BloomItems : BloomAddMany(<<x, y>>)

SpecBloom == BloomInit /\ [][BloomNext]_vars

\* ------------------------------------------------------------------ DuplicateDetector specification
Tokens == {"a", "b"}

RECURSIVE SeqsOfLen(_, _)
SeqsOfLen(S, n) ==
    IF n = 0 THEN {<<>>}
    ELSE {Append(s, x) : s \in SeqsOfLen(S, n - 1), x \in S}

\* The texts shown to a detector: the token sequences of up to MaxTextLen
\* tokens, and texts with whitespace before or after a token.
Texts ==
    UNION {SeqsOfLen(Tokens, n) : n \in 0..MaxTextLen}
        \cup {<<WS>>, <<WS, "a", WS>>}

\* The shingle sizes a detector is built with; __init__ checks none.
ShingleSizes == {0, 1, 2}

\* duplicate_threshold: the default 0.7, and 0.5.
Thresholds == {<<7, 10>>, <<1, 2>>}

\* All shingles of the texts under shingle size k.
ShingleUniverse(k) == SeqsOfLen(Tokens, Max(1, k))

DupInit ==
    /\ \E cfg \in BloomConfigs, k \in ShingleSizes, th \in Thresholds :
          \* two hash functions per item are explored on single tokens only
          /\ cfg.k = 1 \/ k <= 1
          /\ dup = Dup_new(cfg, k, th)
          /\ HashInit(ShingleUniverse(k), cfg.m, cfg.k)
    /\ preDup = dup
    /\ lastText = <<>>
    /\ lastResult = <<>>
    /\ repeated = FALSE
    /\ raised = "none"
    /\ DgimIdle /\ CmsIdle /\ BloomIdle /\ BurstIdle /\ RestIdle

\* observe_message(text).  lastResult is <<the returned dict>>, or <<>> when
\* the call raised or none was made.
DupObserve(text) ==
    /\ dup' = Dup_observe_state(dup, text)
    /\ preDup' = dup
    /\ lastText' = text
    /\ lastResult' = IF observe_message_raises(dup, text) THEN <<>>
                     ELSE <<Dup_observe_result(dup, text)>>
    /\ repeated' = (lastResult # <<>> /\ lastText = text)
    /\ raised' = IF observe_message_raises(dup, text) THEN "ZeroDivisionError" ELSE "none"
    /\ UNCHANGED <<dgimVars, cmsVars, hashVars, bloomVars, burstVars, restVars>>

DupNext == \E text \in Texts : DupObserve(text)

SpecDup == DupInit /\ [][DupNext]_vars

\* ------------------------------------------------------------------ DuplicateDetector construction
\* The arguments the constructor is called with: shingle sizes and thresholds
\* in and out of range, and one Bloom configuration of capacity 0.
ShingleSizeArgs == {-1, 0, 1, 2}

ThresholdArgs == {<<0, 1>>, <<1, 2>>, <<7, 10>>, <<1, 1>>, <<3, 2>>}

BloomConfigArgs ==
    {cfg \in BloomConfigs : cfg.k = 1 /\ cfg.m \in {0, 2}}
        \cup {[capacity |-> 0, error_rate |-> 50, m |-> 0, k |-> 1]}

\* target is "rejected" when the constructor raised, and no object exists.
DupNewInit ==
    /\ \E cfg \in BloomConfigArgs, k \in ShingleSizeArgs, th \in ThresholdArgs :
          IF Dup_new_raises(cfg, k, th)
          THEN /\ target = "rejected"
               /\ raised = "ValueError"
               /\ dup = Idle
               /\ HashIdle
          ELSE /\ target = "duplicate"
               /\ raised = "none"
               /\ dup = Dup_new(cfg, k, th)
               /\ HashInit(ShingleUniverse(k), cfg.m, cfg.k)
    /\ preDup = dup
    /\ lastText = <<>>
    /\ lastResult = <<>>
    /\ repeated = FALSE
    /\ DgimIdle /\ CmsIdle /\ BloomIdle /\ BurstIdle /\ FreqIdle /\ MergeIdle /\ PipeIdle

DupNewObserve(text) ==
    /\ target = "duplicate"
    /\ DupObserve(text)

DupNewNext == \E text \in Texts : DupNewObserve(text)

SpecDupNew == DupNewInit /\ [][DupNewNext]_vars

\* ------------------------------------------------------------------ BurstDetector specification
BurstTokens == {"a", "b", "c"}

\* window_size, top_k_tokens and promotion_threshold of the detectors explored.
BurstWindows == {2, 3}

TopKs == {1, 2}

PromotionThresholds == {1, 2}

\* The messages shown to the detector: the empty and the blank text, a
\* message for every set of tokens, and one that repeats a token.
BurstTexts ==
    { <<>>, <<WS>>, <<"a">>, <<"b">>, <<"c">>, <<"a", "a">>, <<"a", "b">>,
      <<"c", WS, "a">>, <<"b", "c">>, <<"a", "b", "c">> }

\* The orders in which a set can be iterated.
Orders(S) ==
    {o \in SeqsOfLen(S, Cardinality(S)) : {o[i] : i \in DOMAIN o} = S}

BurstInit ==
    /\ \E w \in BurstWindows, k \in TopKs, p \in PromotionThresholds :
          burst = Burst_new(w, k, 2, 1, p)
    /\ preBurst = burst
    /\ lastCall = "none"
    /\ raised = "none"
    /\ DgimIdle /\ CmsIdle /\ HashIdle /\ BloomIdle /\ DupIdle /\ RestIdle

BurstObserve(text, order) ==
    /\ burst.message_count < MaxMsgs
    /\ burst' = Burst_observe_message(burst, text, order)
    /\ preBurst' = burst
    /\ lastCall' = "observe_message"
    /\ raised' = "none"
    /\ UNCHANGED <<dgimVars, cmsVars, hashVars, bloomVars, dupVars, restVars>>

BurstUpdate ==
    /\ burst' = update_tracked_tokens(burst)
    /\ preBurst' = burst
    /\ lastCall' = "update_tracked_tokens"
    /\ raised' = update_tracked_tokens_raises(burst)
    /\ UNCHANGED <<dgimVars, cmsVars, hashVars, bloomVars, dupVars, restVars>>

BurstNext ==
    \/ \E text \in BurstTexts : \E order \in Orders(SeenInMessage(text)) :
          BurstObserve(text, order)
    \/ BurstUpdate

SpecBurst == BurstInit /\ [][BurstNext]_vars

\* The detectors the burst queries are checked on: window 3 and room for
\* two tokens, under the calls of SpecBurst.
BurstTermsInit ==
    /\ \E p \in PromotionThresholds : burst = Burst_new(3, 2, 2, 1, p)
    /\ preBurst = burst
    /\ lastCall = "none"
    /\ raised = "none"
    /\ DgimIdle /\ CmsIdle /\ HashIdle /\ BloomIdle /\ DupIdle /\ RestIdle

SpecBurstTerms == BurstTermsInit /\ [][BurstNext]_vars

\* ------------------------------------------------------------------ FrequencyDetector specification
\* The sketches the detectors explored are built on (from_error_delta gives
\* depth 1 for delta >= 1/e), and their top_k.
FreqWidths == {1, 2}

FreqDepths == {1}

FreqTopKs == {0, 1, 2}

\* The messages shown to the detector.
FreqTexts ==
    { <<>>, <<WS>>, <<"a">>, <<"b">>, <<"A">>, <<"a", WS, "b">>, <<"b", WS, "A", WS, "b">> }

\* The token lists periodic_update is called with.
RecentTokens == UNION {SeqsOfLen(CmsItems, n) : n \in 0..2}

FreqInit ==
    /\ \E width \in FreqWidths, depth \in FreqDepths, k \in FreqTopKs :
         \E hash \in [1..depth -> [CmsItems -> 0..(width - 1)]] :
            freq = Freq_new(CMS_new(width, depth, 0, hash), k)
    /\ preFreq = freq
    /\ lastCall = "none"
    /\ raised = "none"
    /\ burst = Idle /\ preBurst = Idle
    /\ DgimIdle /\ CmsIdle /\ HashIdle /\ BloomIdle /\ DupIdle /\ MergeIdle /\ PipeIdle /\ QueryIdle

FreqObserve(text) ==
    /\ freq.message_count < MaxFreqMsgs
    /\ freq' = Freq_observe_message(freq, text)
    /\ preFreq' = freq
    /\ lastCall' = "observe_message"
    /\ raised' = "none"
    /\ UNCHANGED <<burst, preBurst>>
    /\ UNCHANGED <<dgimVars, cmsVars, hashVars, bloomVars, dupVars, mergeVars, pipeVars, queryVars>>

FreqPeriodicUpdate(recent_tokens) ==
    /\ freq' = periodic_update(freq, recent_tokens)
    /\ preFreq' = freq
    /\ lastCall' = "periodic_update"
    /\ raised' = periodic_update_raises(freq, recent_tokens)
    /\ UNCHANGED <<burst, preBurst>>
    /\ UNCHANGED <<dgimVars, cmsVars, hashVars, bloomVars, dupVars, mergeVars, pipeVars, queryVars>>

FreqNext ==
    \/ \E text \in FreqTexts : FreqObserve(text)
    \/ \E recent_tokens \in RecentTokens : FreqPeriodicUpdate(recent_tokens)

SpecFreq == FreqInit /\ [][FreqNext]_vars

\* ------------------------------------------------------------------ FrequencyDetector with true counts
\* The detector of SpecFreq with, in trueCount, how often observe_message has
\* seen each token.
Occurrences(text, token) ==
    LET tokens == split_preprocessed_tokens(text)
    IN Cardinality({i \in DOMAIN tokens : tokens[i] = token})

FreqCountInit ==
    /\ \E width \in FreqWidths, depth \in FreqDepths, k \in FreqTopKs :
         \E hash \in [1..depth -> [CmsItems -> 0..(width - 1)]] :
            freq = Freq_new(CMS_new(width, depth, 0, hash), k)
    /\ preFreq = freq
    /\ trueCount = [token \in CmsItems |-> 0]
    /\ cms = Idle
    /\ lastCall = "none"
    /\ raised = "none"
    /\ burst = Idle /\ preBurst = Idle
    /\ DgimIdle /\ HashIdle /\ BloomIdle /\ DupIdle /\ MergeIdle /\ PipeIdle /\ QueryIdle

FreqCountObserve(text) ==
    /\ freq.message_count < MaxFreqMsgs
    /\ freq' = Freq_observe_message(freq, text)
    /\ trueCount' = [token \in CmsItems |-> trueCount[token] + Occurrences(text, token)]
    /\ preFreq' = freq
    /\ lastCall' = "observe_message"
    /\ raised' = "none"
    /\ UNCHANGED <<cms, burst, preBurst>>
    /\ UNCHANGED <<dgimVars, hashVars, bloomVars, dupVars, mergeVars, pipeVars, queryVars>>

FreqCountNext ==
    \/ \E text \in FreqTexts : FreqCountObserve(text)
    \/ \E recent_tokens \in RecentTokens : FreqPeriodicUpdate(recent_tokens)

SpecFreqCount == FreqCountInit /\ [][FreqCountNext]_vars

\* ------------------------------------------------------------------ StreamingPipeline specification
\* The messages and the frequency_queries process_message is called with.
PipeTexts == { <<>>, <<"a">>, <<"b">>, <<"a", WS, "b">> }

PipeQueries == { <<>>, <<"A", "b">> }

\* The filters of the duplicate detectors: one hash function, m = 0 or 2.
PipeBloomConfigs == {cfg \in BloomConfigs : cfg.k = 1 /\ cfg.m \in {0, 2}}

\* A pipeline over a FrequencyDetector (width 2, top_k = 1), a BurstDetector
\* (window_size = 2, top_k_tokens = 1, promotion_threshold = 1) and a
\* DuplicateDetector (shingle_size = 1, the default threshold), for every
\* hash assignment.
PipeInit ==
    /\ \E hash \in [1..1 -> [CmsItems -> 0..1]] :
          freq = Freq_new(CMS_new(2, 1, 0, hash), 1)
    /\ burst = Burst_new(2, 1, 2, 1, 1)
    /\ \E cfg \in PipeBloomConfigs :
          /\ dup = Dup_new(cfg, 1, <<7, 10>>)
          /\ HashInit(ShingleUniverse(1), cfg.m, cfg.k)
    /\ preFreq = freq /\ preBurst = burst /\ preDup = dup
    /\ lastText = <<>>
    /\ lastCall = "none"
    /\ raised = "none"
    /\ pipeTrace = <<>>
    /\ pipeOut = <<>>
    /\ lastResult = Idle /\ repeated = Idle
    /\ DgimIdle /\ CmsIdle /\ BloomIdle /\ MergeIdle /\ QueryIdle

PipeProcess(text, frequency_queries, order) ==
    LET r == process_message(Pipeline_new(freq, burst, dup), text, frequency_queries, order)
    IN /\ freq.message_count < MaxPipeMsgs
       /\ freq' = r.p.frequency_detector
       /\ burst' = r.p.burst_detector
       /\ dup' = r.p.duplicate_detector
       /\ preFreq' = freq /\ preBurst' = burst /\ preDup' = dup
       /\ lastText' = text
       /\ lastCall' = "process_message"
       /\ raised' = r.err
       /\ pipeTrace' = r.trace
       /\ pipeOut' = r.out
       /\ UNCHANGED <<lastResult, repeated>>
       /\ UNCHANGED <<dgimVars, cmsVars, hashVars, bloomVars, mergeVars, queryVars>>

\* The host's periodic calls on the detectors of the pipeline.
PipeBurstUpdate ==
    /\ burst' = update_tracked_tokens(burst)
    /\ preBurst' = burst /\ preFreq' = freq /\ preDup' = dup
    /\ lastCall' = "update_tracked_tokens"
    /\ raised' = update_tracked_tokens_raises(burst)
    /\ pipeTrace' = <<>>
    /\ pipeOut' = <<>>
    /\ UNCHANGED <<freq, dup, lastText, lastResult, repeated>>
    /\ UNCHANGED <<dgimVars, cmsVars, hashVars, bloomVars, mergeVars, queryVars>>

PipeFreqUpdate(recent_tokens) ==
    /\ freq' = periodic_update(freq, recent_tokens)
    /\ preBurst' = burst /\ preFreq' = freq /\ preDup' = dup
    /\ lastCall' = "periodic_update"
    /\ raised' = periodic_update_raises(freq, recent_tokens)
    /\ pipeTrace' = <<>>
    /\ pipeOut' = <<>>
    /\ UNCHANGED <<burst, dup, lastText, lastResult, repeated>>
    /\ UNCHANGED <<dgimVars, cmsVars, hashVars, bloomVars, mergeVars, queryVars>>

PipeNext ==
    \/ \E text \in PipeTexts, frequency_queries \in PipeQueries :
          \E order \in Orders(SeenInMessage(text)) :
             PipeProcess(text, frequency_queries, order)
    \/ PipeBurstUpdate
    \/ PipeFreqUpdate(<<"b", "a">>)

SpecPipeline == PipeInit /\ [][PipeNext]_vars

\* ------------------------------------------------------------------ burst promotion scenario
\* The two phases of the scenario: the messages of the phase (each contains
\* the token of the phase; in the first phase one other token may come with
\* it) and the message_count at which the phase ends.
ScenarioPhases ==
    <<[texts |-> { <<"crypto">>, <<"crypto", WS, "x">>, <<"x", WS, "crypto">> },
       until |-> 20],
      [texts |-> { <<"lottery">>, <<WS, "lottery">> }, until |-> 40]>>

ScenarioInit ==
    /\ burst = Burst_new(50, 3, 5, 20, 2)
    /\ preBurst = burst
    /\ lastCall = "none"
    /\ raised = "none"
    /\ DgimIdle /\ CmsIdle /\ HashIdle /\ BloomIdle /\ DupIdle /\ RestIdle

\* The next message of the phase that is under way; the second phase starts
\* after the update_tracked_tokens call that follows the first.
ScenarioObserve(text, order) ==
    /\ \E i \in DOMAIN ScenarioPhases :
          /\ burst.message_count < ScenarioPhases[i].until
          /\ \A j \in 1..(i - 1) :
                \/ burst.message_count > ScenarioPhases[j].until
                \/ /\ burst.message_count = ScenarioPhases[j].until
                   /\ lastCall = "update_tracked_tokens"
          /\ text \in ScenarioPhases[i].texts
    /\ burst' = Burst_observe_message(burst, text, order)
    /\ preBurst' = burst
    /\ lastCall' = "observe_message"
    /\ raised' = "none"
    /\ UNCHANGED <<dgimVars, cmsVars, hashVars, bloomVars, dupVars, restVars>>

\* update_tracked_tokens at the end of a phase.
ScenarioUpdate ==
    /\ lastCall = "observe_message"
    /\ \E i \in DOMAIN ScenarioPhases : burst.message_count = ScenarioPhases[i].until
    /\ burst' = update_tracked_tokens(burst)
    /\ preBurst' = burst
    /\ lastCall' = "update_tracked_tokens"
    /\ raised' = update_tracked_tokens_raises(burst)
    /\ UNCHANGED <<dgimVars, cmsVars, hashVars, bloomVars, dupVars, restVars>>

ScenarioNext ==
    \/ \E text \in UNION {ScenarioPhases[i].texts : i \in DOMAIN ScenarioPhases} :
          \E order \in Orders(SeenInMessage(text)) : ScenarioObserve(text, order)
    \/ ScenarioUpdate

SpecScenario == ScenarioInit /\ [][ScenarioNext]_vars

\* ------------------------------------------------------------------ query specification
\* One component at a time is put under a mix of mutating calls and queries;
\* the components that are not under test stay Idle.
\* The pushes a DGIM under query takes, and the messages a detector takes.
MaxQueryTime == 6

MaxQueryMsgs == 2

QueryNames ==
    { "estimate", "get_burst_terms", "is_burst", "get_burst_summary",
      "estimate_frequency", "estimate_batch", "get_frequency_analysis",
      "is_duplicate" }

QueryWindows == {1, 2, 3}

\* top_n of get_burst_terms and get_frequency_analysis.
QueryTopNs == {0, 1, 2}

\* The texts is_duplicate and the detectors' observe_message are called with.
QueryTexts == { <<>>, <<"a">>, <<"b">>, <<"a", WS, "b">> }

QueryInit ==
    /\ \/ /\ target = "dgim"
          /\ \E w \in QueryWindows : dgim = DGIM_new(w)
          /\ burst = Idle /\ freq = Idle /\ dup = Idle /\ HashIdle
       \/ /\ target = "burst"
          /\ \E w \in BurstWindows, k \in TopKs, p \in PromotionThresholds :
                burst = Burst_new(w, k, 2, 1, p)
          /\ dgim = Idle /\ freq = Idle /\ dup = Idle /\ HashIdle
       \/ /\ target = "frequency"
          /\ \E k \in {1, 2} : \E hash \in [1..1 -> [CmsItems -> 0..1]] :
                freq = Freq_new(CMS_new(2, 1, 0, hash), k)
          /\ dgim = Idle /\ burst = Idle /\ dup = Idle /\ HashIdle
       \/ /\ target = "duplicate"
          /\ \E cfg \in PipeBloomConfigs, k \in {1, 2} :
                /\ dup = Dup_new(cfg, k, <<7, 10>>)
                /\ HashInit(ShingleUniverse(k), cfg.m, cfg.k)
          /\ dgim = Idle /\ burst = Idle /\ freq = Idle
    /\ lastCall = "none"
    /\ lastText = <<>>
    /\ lastResult = <<>>
    /\ repeated = FALSE
    /\ raised = "none"
    /\ stream = Idle /\ preDgim = Idle /\ lastBit = Idle
    /\ preDup = Idle /\ preBurst = Idle /\ preFreq = Idle
    /\ CmsIdle /\ BloomIdle /\ MergeIdle /\ PipeIdle

\* The record of a call: its name, its arguments, <<what it returned>> (<<>>
\* if it raised) and the exception; repeated tells that the call before it
\* was the same query with the same arguments.
QueryCall(name, args, result, exc) ==
    /\ lastCall' = name
    /\ lastText' = args
    /\ lastResult' = result
    /\ repeated' = (name \in QueryNames /\ lastCall = name /\ lastText = args)
    /\ raised' = exc
    /\ UNCHANGED <<stream, preDgim, lastBit, preDup, preBurst, preFreq>>
    /\ UNCHANGED <<cmsVars, hashVars, bloomVars, mergeVars, pipeVars, queryVars>>

QueryPush(bit) ==
    /\ target = "dgim"
    /\ dgim.time < MaxQueryTime
    /\ dgim' = DGIM_push(dgim, bit)
    /\ QueryCall("push", <<bit>>, <<>>, "none")
    /\ UNCHANGED <<burst, freq, dup>>

QueryEstimate ==
    /\ target = "dgim"
    /\ dgim' = DGIM_estimate_state(dgim)
    /\ QueryCall("estimate", <<>>, <<DGIM_estimate(dgim)>>, "none")
    /\ UNCHANGED <<burst, freq, dup>>

QueryBurstObserve(text, order) ==
    /\ target = "burst"
    /\ burst.message_count < MaxQueryMsgs + 1
    /\ burst' = Burst_observe_message(burst, text, order)
    /\ QueryCall("observe_message", text, <<>>, "none")
    /\ UNCHANGED <<dgim, freq, dup>>

QueryBurstUpdate ==
    /\ target = "burst"
    /\ burst' = update_tracked_tokens(burst)
    /\ QueryCall("update_tracked_tokens", <<>>, <<>>, update_tracked_tokens_raises(burst))
    /\ UNCHANGED <<dgim, freq, dup>>

QueryGetBurstTerms(top_n) ==
    /\ target = "burst"
    /\ burst' = get_burst_terms_state(burst)
    /\ QueryCall("get_burst_terms", <<top_n>>, <<get_burst_terms(burst, top_n)>>, "none")
    /\ UNCHANGED <<dgim, freq, dup>>

QueryIsBurst ==
    /\ target = "burst"
    /\ burst' = is_burst_state(burst)
    /\ QueryCall("is_burst", <<>>, <<is_burst(burst)>>, "none")
    /\ UNCHANGED <<dgim, freq, dup>>

QueryGetBurstSummary ==
    /\ target = "burst"
    /\ burst' = get_burst_summary_state(burst)
    /\ QueryCall("get_burst_summary", <<>>, <<get_burst_summary(burst)>>, "none")
    /\ UNCHANGED <<dgim, freq, dup>>

QueryFreqObserve(text) ==
    /\ target = "frequency"
    /\ freq.message_count < MaxQueryMsgs
    /\ freq' = Freq_observe_message(freq, text)
    /\ QueryCall("observe_message", text, <<>>, "none")
    /\ UNCHANGED <<dgim, burst, dup>>

QueryFreqUpdate(recent_tokens) ==
    /\ target = "frequency"
    /\ freq' = periodic_update(freq, recent_tokens)
    /\ QueryCall("periodic_update", recent_tokens, <<>>,
                 periodic_update_raises(freq, recent_tokens))
    /\ UNCHANGED <<dgim, burst, dup>>

\* estimate_frequency, estimate_batch and get_frequency_analysis assign to no
\* attribute of the detector or of its sketch.
QueryEstimateFrequency(term) ==
    /\ target = "frequency"
    /\ QueryCall("estimate_frequency", <<term>>, <<estimate_frequency(freq, term)>>, "none")
    /\ UNCHANGED <<dgim, burst, freq, dup>>

QueryEstimateBatch(terms) ==
    /\ target = "frequency"
    /\ QueryCall("estimate_batch", terms, <<estimate_batch(freq, terms)>>, "none")
    /\ UNCHANGED <<dgim, burst, freq, dup>>

QueryGetFrequencyAnalysis(top_n) ==
    /\ target = "frequency"
    /\ QueryCall("get_frequency_analysis", <<top_n>>,
                 <<get_frequency_analysis(freq, top_n)>>, "none")
    /\ UNCHANGED <<dgim, burst, freq, dup>>

QueryDupObserve(text) ==
    /\ target = "duplicate"
    /\ dup' = Dup_observe_state(dup, text)
    /\ QueryCall("observe_message", text,
                 IF observe_message_raises(dup, text) THEN <<>>
                 ELSE <<Dup_observe_result(dup, text)>>,
                 IF observe_message_raises(dup, text) THEN "ZeroDivisionError" ELSE "none")
    /\ UNCHANGED <<dgim, burst, freq>>

\* is_duplicate assigns to no attribute of the detector or of its filter.
QueryIsDuplicate(text) ==
    /\ target = "duplicate"
    /\ QueryCall("is_duplicate", text,
                 IF is_duplicate_raises(dup, text) THEN <<>>
                 ELSE <<is_duplicate(dup, text)>>,
                 IF is_duplicate_raises(dup, text) THEN "ZeroDivisionError" ELSE "none")
    /\ UNCHANGED <<dgim, burst, freq, dup>>

QueryNext ==
    \/ \E bit \in {0, 1} : QueryPush(bit)
    \/ QueryEstimate
    \/ \E text \in QueryTexts : \E order \in Orders(SeenInMessage(text)) :
          QueryBurstObserve(text, order)
    \/ QueryBurstUpdate
    \/ \E top_n \in QueryTopNs : QueryGetBurstTerms(top_n)
    \/ QueryIsBurst
    \/ QueryGetBurstSummary
    \/ \E text \in QueryTexts : QueryFreqObserve(text)
    \/ \E recent_tokens \in {<<"a">>, <<"b", "a">>} : QueryFreqUpdate(recent_tokens)
    \/ \E term \in CmsItems : QueryEstimateFrequency(term)
    \/ \E terms \in {<<"a", "b">>, <<"A", "a">>} : QueryEstimateBatch(terms)
    \/ \E top_n \in QueryTopNs : QueryGetFrequencyAnalysis(top_n)
    \/ \E text \in QueryTexts : QueryDupObserve(text)
    \/ \E text \in QueryTexts : QueryIsDuplicate(text)

SpecQuery == QueryInit /\ [][QueryNext]_vars

\* ------------------------------------------------------------------ DGIM claims
Ones(s) == Cardinality({i \in DOMAIN s : s[i] = 1})

\* The number of 1s among the last window_size pushed bits.
TrueCount == Ones(stream)

EstimateError == Abs(DGIM_estimate(dgim) - TrueCount)

\* C2: after any sequence of push(0)/push(1), |estimate() - true count of
\* the last N bits| is at most half the size of the oldest live bucket, and
\* hence at most ceil(true count / 2).
C2_ErrorBound ==
    /\ 2 * EstimateError <= OldestBucketSize(dgim)
    /\ EstimateError <= (TrueCount + 1) \div 2

\* An oldest bucket of size 4 that reaches out of the window, so that the
\* estimate is above the true count.
C2_Witness ==
    /\ OldestBucketSize(dgim) = 4
    /\ DGIM_estimate(dgim) > TrueCount
    /\ dgim.time > dgim.window_size

\* C3: after any sequence of pushes at most two buckets of a size coexist
\* and a bucket at level k has size exactly 2^k.
C3_BucketInvariant ==
    \A i \in DOMAIN dgim.levels :
        /\ Len(dgim.levels[i]) <= 2
        /\ \A j \in DOMAIN dgim.levels[i] : dgim.levels[i][j][1] = Pow2(i - 1)

\* A push of a 1 that cascaded through two levels: level 0 and 1 each lost
\* two buckets and level 2 holds what they merged into.
C3_Witness ==
    /\ lastBit = 1
    /\ Len(preDgim.levels) >= 2
    /\ Len(preDgim.levels[1]) = 2
    /\ Len(preDgim.levels[2]) = 2
    /\ Len(dgim.levels) >= 3
    /\ Len(dgim.levels[1]) = 1
    /\ Len(dgim.levels[2]) = 1
    /\ Len(dgim.levels[3]) >= 1

\* The latest push expired no bucket.
NoExpiry == expire_old([preDgim EXCEPT !.time = @ + 1]).levels = preDgim.levels

\* The latest push merged the two oldest buckets into one of size 8 or more.
MergedOldest8 ==
    /\ OldestBucketSize(dgim) >= 8
    /\ OldestBucketSize(dgim) # OldestBucketSize(preDgim)

\* C4 as stated: pushing a 1 never decreases estimate().
C4_Original == lastBit = 1 => DGIM_estimate(dgim) >= DGIM_estimate(preDgim)

\* C4 amended: pushing a 1 never decreases estimate() when the push expires
\* no bucket and does not merge the two oldest buckets into a bucket of size
\* 8 or more.
C4_PushOneMonotone ==
    (lastBit = 1 /\ NoExpiry /\ ~MergedOldest8)
        => DGIM_estimate(dgim) >= DGIM_estimate(preDgim)

\* A push of a 1 without expiry that merged the two oldest buckets (2 and 2
\* into 4) and left the estimate where it was.
C4_Witness ==
    /\ lastBit = 1
    /\ NoExpiry
    /\ OldestBucketSize(preDgim) = 2
    /\ OldestBucketSize(dgim) = 4
    /\ DGIM_estimate(dgim) = DGIM_estimate(preDgim)

\* C5: pushing a 0 never increases estimate().
C5_PushZeroMonotone == lastBit = 0 => DGIM_estimate(dgim) <= DGIM_estimate(preDgim)

\* A push of a 0 that expired the oldest bucket and lowered the estimate.
C5_Witness ==
    /\ lastBit = 0
    /\ ~NoExpiry
    /\ DGIM_estimate(dgim) < DGIM_estimate(preDgim)

\* A fresh DGIM of window 16 after exactly eight pushes, all of them 1.
EightOnes ==
    /\ dgim.window_size = 16
    /\ dgim.time = 8
    /\ stream = <<1, 1, 1, 1, 1, 1, 1, 1>>

\* C6 as stated: window 16, eight 1-bits, estimate() returns 8.
C6_Original == EightOnes => DGIM_estimate(dgim) = 8

\* C6 amended: window 16, eight 1-bits, estimate() returns 6 (buckets of
\* sizes 4, 2, 1, 1; half of the oldest, 2, is subtracted from 8).
C6_EightOnesEstimate == EightOnes => DGIM_estimate(dgim) = 6

C6_Witness ==
    /\ EightOnes
    /\ Concat(dgim.levels) = <<<<1, 7>>, <<1, 8>>, <<2, 6>>, <<4, 4>>>>

\* C16: push(b) with b outside {0, 1} raises and leaves the arrival counter
\* and the bucket list as they were before the call.
C16_RejectedPushNoEffect ==
    raised = "ValueError" =>
        /\ lastBit \notin {0, 1}
        /\ dgim.time = preDgim.time
        /\ dgim.levels = preDgim.levels

\* ------------------------------------------------------------------ CountMinSketch claims
\* C1: after any sequence of add(item, count) with count >= 0, under any
\* fixed per-row hash functions, estimate(x) is at least the sum of the
\* counts added for x, for every item x, added or not.
C1_OneSidedError == \A x \in CmsItems : CMS_estimate(cms, x) >= trueCount[x]

\* A sketch of two rows in which an item never added has a positive estimate
\* (it collides in every row) while another item was added with count 2.
C1_Witness ==
    /\ cms.depth = 2
    /\ \E x \in CmsItems : trueCount[x] = 0 /\ CMS_estimate(cms, x) > 0
    /\ \E y \in CmsItems : trueCount[y] >= 2 /\ CMS_estimate(cms, y) > trueCount[y]

\* C17: add with count < 0 and merge with a different (width, depth, seed)
\* raise and leave table and total_count of both sketches unchanged.
C17_RejectedCallNoEffect ==
    /\ raised = "ValueError" => (cms = preCms /\ other = preOther)
    /\ (lastCall = "merge" /\ CMS_merge_raises(preCms, preOther)) => raised = "ValueError"

\* A merge between two sketches that hold counts and differ in the seed only
\* was rejected.
C17_Witness ==
    /\ lastCall = "merge" /\ raised = "ValueError"
    /\ cms.total_count > 0 /\ other.total_count > 0
    /\ cms.width = other.width /\ cms.depth = other.depth /\ cms.seed # other.seed

RECURSIVE Replay(_, _)
\* The sketch c after the adds of stream, in order.
Replay(c, adds) ==
    IF adds = <<>> THEN c
    ELSE Replay(CMS_add(c, Head(adds)[1], Head(adds)[2]), Tail(adds))

\* C18: after A.merge(B) with identical (width, depth, seed), every cell of
\* A is the sum of the two former cells, A.total_count the sum of the totals,
\* B is unchanged, and A equals the sketch fed A's stream, then B's.
C18_MergeLaw ==
    (lastCall = "merge" /\ raised = "none") =>
        /\ \A r \in 1..cms.depth : \A col \in 0..(cms.width - 1) :
              cms.table[r][col] = preCms.table[r][col] + preOther.table[r][col]
        /\ cms.total_count = preCms.total_count + preOther.total_count
        /\ other = preOther
        /\ cms = Replay(CMS_new(cms.width, cms.depth, cms.seed, cms.hash), fed[1])

\* Two sketches of depth 2 that both hold counts, for both items, were merged.
C18_Witness ==
    /\ lastCall = "merge" /\ raised = "none"
    /\ cms.depth = 2 /\ cms.width = 2
    /\ preCms.total_count > 0 /\ preOther.total_count > 0
    /\ preCms.table # preOther.table

\* ------------------------------------------------------------------ BloomFilter claims
\* C7: every item that add or add_many has accepted tests positive right
\* afterwards and after any further adds of any items.
C7_NoFalseNegatives == \A item \in passed : Bloom_contains(bloom, item)

\* Two items were added to a filter with two hash functions, and the third
\* item, never added, tests positive as well.
C7_Witness ==
    /\ bloom.k = 2
    /\ Cardinality(passed) = 2
    /\ \E item \in BloomItems \ passed : Bloom_contains(bloom, item)
    /\ \A item \in passed : Bloom_contains(bloom, item)

\* ------------------------------------------------------------------ DuplicateDetector claims
\* The latest observe_message returned, and the call before it returned and
\* had the same text.
RepeatedCall == repeated /\ lastResult # <<>>

IsFullDuplicate(r) == r.duplicate_score = <<1, 1>> /\ r.is_duplicate = TRUE

\* C8 as stated: for any non-empty text T, the second of two observe_message(T)
\* in a row returns duplicate_score = 1.0 and is_duplicate = true.
C8_Original == (RepeatedCall /\ lastText # <<>>) => IsFullDuplicate(lastResult[1])

\* C8 amended: on a detector whose filter has m >= 1 bits no observe_message
\* raises, and for any text T that has at least one shingle (at least
\* max(1, shingle_size) tokens) the second of two observe_message(T) in a row
\* returns duplicate_score = 1.0 and is_duplicate = true, while for a
\* non-empty text with no shingle every call returns duplicate_score = 0.0
\* and is_duplicate = false; on a detector whose filter has m = 0 bits no
\* observe_message returns (each raises ZeroDivisionError).
C8_RepeatIsDuplicate ==
    /\ (RepeatedCall /\ to_shingles(dup, lastText) # <<>>)
          => IsFullDuplicate(lastResult[1])
    /\ (lastResult # <<>> /\ lastText # <<>> /\ to_shingles(dup, lastText) = <<>>)
          => /\ lastResult[1].duplicate_score = <<0, 1>>
             /\ lastResult[1].is_duplicate = FALSE
    /\ dup.bloom.m >= 1 => raised = "none"
    /\ dup.bloom.m = 0 => lastResult = <<>>
    /\ raised = "ZeroDivisionError" => (dup.bloom.m = 0 /\ dup = preDup)

\* A repeated text of two different shingles, under the default threshold.
C8_Witness ==
    /\ RepeatedCall
    /\ dup.duplicate_threshold = <<7, 10>>
    /\ Len(to_shingles(dup, lastText)) = 2
    /\ to_shingles(dup, lastText)[1] # to_shingles(dup, lastText)[2]
    /\ IsFullDuplicate(lastResult[1])

Fresh(d) == SumPopCount(d.bloom.bits) = 0

\* C9: what observe_message(T) returns is is_duplicate(T) evaluated before
\* any shingle of T is inserted; the first observe_message on a fresh
\* detector returns is_duplicate = false and score 0.0.
C9_QueryBeforeInsert ==
    lastResult # <<>> =>
        /\ lastResult[1].is_duplicate = is_duplicate(preDup, lastText)[1]
        /\ lastResult[1].duplicate_score = is_duplicate(preDup, lastText)[2]
        /\ Fresh(preDup) =>
              /\ lastResult[1].is_duplicate = FALSE
              /\ lastResult[1].duplicate_score = <<0, 1>>

\* The first message of a fresh detector: it has shingles, it was reported as
\* no duplicate, and asked again after the insertion it is a full duplicate.
C9_Witness ==
    /\ lastResult # <<>>
    /\ Fresh(preDup)
    /\ to_shingles(dup, lastText) # <<>>
    /\ lastResult[1].is_duplicate = FALSE
    /\ lastResult[1].duplicate_score = <<0, 1>>
    /\ is_duplicate(dup, lastText) = <<TRUE, <<1, 1>>>>

\* ------------------------------------------------------------------ BurstDetector claims
\* C10: after any interleaving of observe_message and update_tracked_tokens
\* the number of tracked tokens (DGIM instances) is at most top_k_tokens.
C10_TrackedAtMostK ==
    /\ Len(burst.dgim_instances) <= burst.top_k_tokens
    /\ Cardinality(burst.tracked_tokens) <= burst.top_k_tokens

\* An update_tracked_tokens on a full tracked set of two that evicted a
\* token for a candidate and left the set full.
C10_Witness ==
    /\ lastCall = "update_tracked_tokens"
    /\ raised = "none"
    /\ burst.top_k_tokens = 2
    /\ Len(preBurst.dgim_instances) = 2
    /\ Len(burst.dgim_instances) = 2
    /\ preBurst.tracked_tokens \ burst.tracked_tokens # {}
    /\ burst.tracked_tokens \ preBurst.tracked_tokens # {}

\* The arrival counters of the DGIMs of the tracked tokens, by token.
TrackedTimes(b) == [i \in DOMAIN b.dgim_instances |->
                      <<b.dgim_instances[i][1], b.dgim_instances[i][2].time>>]

\* C11 (as stated): in every reachable state the DGIM of every tracked token
\* has received exactly message_count pushes.
C11_Original ==
    \A i \in DOMAIN burst.dgim_instances :
        burst.dgim_instances[i][2].time = burst.message_count

\* C11 (amended): observe_message pushes exactly one bit into the DGIM of every
\* tracked token and adds one to message_count, and the arrival counter of a
\* tracked DGIM is never more than message_count.
C11_AdvanceOncePerMessage ==
    /\ \A i \in DOMAIN burst.dgim_instances :
          burst.dgim_instances[i][2].time <= burst.message_count
    /\ lastCall = "observe_message" =>
          /\ burst.message_count = preBurst.message_count + 1
          /\ TrackedTimes(burst) =
                [i \in DOMAIN preBurst.dgim_instances |->
                    <<preBurst.dgim_instances[i][1],
                      preBurst.dgim_instances[i][2].time + 1>>]

\* A message without the tokens tracked reaches two tracked DGIMs, one of them
\* promoted late (its counter is behind message_count).
C11_Witness ==
    /\ lastCall = "observe_message"
    /\ Len(burst.dgim_instances) = 2
    /\ burst.tracked_tokens \cap SeenInMessage(<<"c">>) = {}
    /\ DictHas(burst.candidate_tokens, "c")
    /\ \E i \in DOMAIN burst.dgim_instances :
          burst.dgim_instances[i][2].time < burst.message_count
    /\ \E i \in DOMAIN burst.dgim_instances :
          burst.dgim_instances[i][2].time = burst.message_count

\* C12: update_tracked_tokens returns without raising, for every detector
\* with top_k_tokens >= 1 and window_size >= 1.
C12_UpdateNeverRaises ==
    (/\ lastCall = "update_tracked_tokens"
     /\ preBurst.top_k_tokens >= 1 /\ preBurst.window_size >= 1) => raised = "none"

\* ------------------------------------------------------------------ FrequencyDetector claims
\* C13: after any interleaving of observe_message and periodic_update, the
\* top-K map holds at most top_k tokens (and so does the heap).
C13_TopKBound ==
    /\ Len(freq.top_tokens) <= freq.top_k
    /\ Len(freq.heap) <= freq.top_k

\* A periodic_update on a full map replaced the minimum by a new token.
C13_Witness ==
    /\ lastCall = "periodic_update" /\ raised = "none"
    /\ freq.top_k = 2
    /\ Len(preFreq.top_tokens) = 2 /\ Len(freq.top_tokens) = 2
    /\ DictKeys(freq.top_tokens) # DictKeys(preFreq.top_tokens)

\* ------------------------------------------------------------------ StreamingPipeline claims
\* C14: process_message completes and returns a map with the keys
\* frequencies, burst and duplicate, where burst is get_burst_summary() and
\* frequencies is empty when no queries are given.
C14_ProcessMessageReturns ==
    lastCall = "process_message" =>
        /\ raised = "none"
        /\ pipeOut # <<>>
        /\ DOMAIN pipeOut[1] = {"frequencies", "burst", "duplicate"}
        /\ pipeOut[1].burst = get_burst_summary(burst)

\* C15: in every process_message call each detector observes the message
\* exactly once, in the order frequency, burst, duplicate, before any query.
C15_FanOutOrder ==
    lastCall = "process_message" =>
        /\ Len(pipeTrace) >= 3
        /\ SubSeq(pipeTrace, 1, 3) = ObserveCalls("frequency", "burst", "duplicate")
        /\ \A i \in 4..Len(pipeTrace) :
              pipeTrace[i] \notin {pipeTrace[1], pipeTrace[2], pipeTrace[3]}
        /\ freq = Freq_observe_message(preFreq, lastText)
        /\ freq.message_count = preFreq.message_count + 1
        /\ burst.message_count = preBurst.message_count + 1
        /\ dup = Dup_observe_state(preDup, lastText)

\* A message with two tokens went through a pipeline with a tracked token and
\* a query was asked for after the three observations.
C15_Witness ==
    /\ lastCall = "process_message"
    /\ lastText = <<"a", WS, "b">>
    /\ Len(pipeTrace) = 5
    /\ burst.tracked_tokens # {}
    /\ dup.bloom.bits # preDup.bloom.bits

\* C20: observe_message("") leaves the CMS, the top-K map, the tracked set,
\* the candidate buffer and the Bloom bits unchanged; both message counts go
\* up by one and every tracked DGIM receives exactly one 0-bit.
C20_EmptyTextNoOp ==
    (lastCall = "process_message" /\ lastText = <<>>) =>
        /\ freq = [preFreq EXCEPT !.message_count = @ + 1]
        /\ burst = [preBurst EXCEPT
                      !.message_count = @ + 1,
                      !.dgim_instances =
                          [i \in DOMAIN @ |-> <<@[i][1], push_valid(@[i][2], 0)>>]]
        /\ dup = preDup

\* The empty message reached a pipeline whose sketch, top-K map, tracked set,
\* candidate buffer and Bloom filter all hold something.
C20_Witness ==
    /\ lastCall = "process_message" /\ lastText = <<>>
    /\ freq.cms.total_count > 0
    /\ freq.top_tokens # <<>>
    /\ burst.tracked_tokens # {}
    /\ \E i \in DOMAIN burst.candidate_tokens : burst.candidate_tokens[i][2] > 0
    /\ SumPopCount(dup.bloom.bits) > 0
    /\ \E i \in DOMAIN burst.dgim_instances :
          /\ burst.dgim_instances[i][2].levels # <<>>
          /\ preBurst.dgim_instances[i][2].levels # <<>>

\* ------------------------------------------------------------------ burst promotion scenario claims
\* get_burst_terms() reports token with a recent count of at least 5.
Reported(b, token) ==
    \E i \in DOMAIN get_burst_terms(b, b.report_top_n) :
        /\ get_burst_terms(b, b.report_top_n)[i][1] = token
        /\ get_burst_terms(b, b.report_top_n)[i][2] >= 5

\* The 20 messages with "lottery" have been observed.
PhasesDone == burst.message_count = ScenarioPhases[2].until

\* C19 (as stated): after 20 messages with "crypto", one update_tracked_tokens
\* and 20 messages with "lottery", both tokens are tracked and get_burst_terms
\* includes "lottery" with a recent count >= 5.
C19_Original ==
    (PhasesDone /\ lastCall = "observe_message") =>
        /\ {"crypto", "lottery"} \subseteq burst.tracked_tokens
        /\ Reported(burst, "lottery")

\* C19 (amended): at that point "crypto" is tracked and "lottery" is a
\* candidate of counter 20; after a second update_tracked_tokens both are
\* tracked and get_burst_terms includes "lottery" with a recent count >= 5.
C19_PromotedBySecondUpdate ==
    /\ (PhasesDone /\ lastCall = "observe_message") =>
          /\ "crypto" \in burst.tracked_tokens
          /\ "lottery" \notin burst.tracked_tokens
          /\ DictHas(burst.candidate_tokens, "lottery")
          /\ DictGet(burst.candidate_tokens, "lottery") = 20
    /\ (PhasesDone /\ lastCall = "update_tracked_tokens") =>
          /\ raised = "none"
          /\ {"crypto", "lottery"} \subseteq burst.tracked_tokens
          /\ Reported(burst, "lottery")

\* The scenario ran to the second update with plain messages only.
C19_Witness ==
    /\ PhasesDone /\ lastCall = "update_tracked_tokens"
    /\ burst.tracked_tokens = {"crypto", "lottery"}
    /\ ~DictHas(burst.candidate_tokens, "x")
    /\ Reported(burst, "lottery")
    /\ DictGet(preBurst.dgim_instances, "crypto").time = 40

\* ------------------------------------------------------------------ queries
\* C21: a query (estimate_frequency, estimate_batch, get_frequency_analysis,
\* get_burst_terms, is_burst, get_burst_summary, is_duplicate, DGIM.estimate)
\* made in a state reached by valid calls leaves the state of every component
\* as it was, and a query repeated with no other call in between returns what
\* it returned the first time.
C21_QueriesReadOnly ==
    [][lastCall' \in QueryNames =>
          /\ <<dgim, burst, freq, dup>>' = <<dgim, burst, freq, dup>>
          /\ repeated' => (lastResult' = lastResult /\ raised' = raised)]_vars

\* A query was repeated on a component that holds data: a DGIM with a bucket,
\* a burst detector with a tracked token over the threshold, a frequency
\* detector with a tracked token, a duplicate detector with a set bit.
C21_Witness ==
    /\ repeated = TRUE
    /\ lastCall \in QueryNames
    /\ \/ target = "dgim" /\ Buckets(dgim) # <<>> /\ dgim.time > dgim.window_size
       \/ target = "burst" /\ lastCall = "get_burst_summary" /\ lastResult[1].active
       \/ target = "frequency" /\ lastCall = "get_frequency_analysis" /\ lastResult[1] # <<>>
       \/ target = "duplicate" /\ lastResult # <<>> /\ lastResult[1][1] = TRUE

\* ------------------------------------------------------------------ construction
\* C22: a DuplicateDetector that was constructed (the constructor did not
\* raise) has a shingle size of at least 1.
C22_ShingleSizePositive == target = "duplicate" => dup.shingle_size >= 1

\* ------------------------------------------------------------------ candidate buffer
\* C23: when update_tracked_tokens returns, every candidate whose counter was
\* at least promotion_threshold at the call has left the candidate buffer.
C23_ProcessedCandidateRemoved ==
    (lastCall = "update_tracked_tokens" /\ raised = "none") =>
        \A i \in DOMAIN preBurst.candidate_tokens :
            preBurst.candidate_tokens[i][2] >= preBurst.promotion_threshold =>
                ~DictHas(burst.candidate_tokens, preBurst.candidate_tokens[i][1])

\* C24: no token is at once tracked and in the candidate buffer, and the
\* tokens update_tracked_tokens has just evicted are in neither.
C24_LifecycleExclusive ==
    /\ burst.tracked_tokens \cap DictKeys(burst.candidate_tokens) = {}
    /\ lastCall = "update_tracked_tokens" =>
          \A token \in preBurst.tracked_tokens \ burst.tracked_tokens :
              ~DictHas(burst.candidate_tokens, token)

\* ------------------------------------------------------------------ eviction policy
RECURSIVE StepsFrom(_, _)
\* The candidates the loop of update_tracked_tokens examines, each with the
\* detector before and after it; the loop ends at the first exception.
StepsFrom(st, items) ==
    IF items = <<>> \/ st.err # "none" THEN <<>>
    ELSE LET next == ProcessCandidate(st, Head(items)[1], Head(items)[2])
         IN <<[token |-> Head(items)[1], count |-> Head(items)[2],
               before |-> st.b, after |-> next.b, err |-> next.err]>>
                \o StepsFrom(next, Tail(items))

UpdateSteps(b) == StepsFrom(UpdateStart(b), UpdateStart(b).b.candidate_tokens)

\* The least current estimate over the tokens tracked by b (b tracks one).
MinTrackedEstimate(b) ==
    LET ests == {DGIM_estimate(b.dgim_instances[i][2]) : i \in DOMAIN b.dgim_instances}
    IN CHOOSE m \in ests : \A e \in ests : m <= e

\* TRUE iff the step gave its candidate a fresh DGIM instance.
Promoted(s) == s.after.dgim_instances # s.before.dgim_instances

\* C25: in update_tracked_tokens a candidate with counter >= promotion_threshold
\* that finds the tracked set full is promoted iff its counter is greater than
\* the least current estimate over the tokens tracked at that moment, and the
\* token evicted for it has that least estimate.
C25_EvictsCurrentMinimum ==
    lastCall = "update_tracked_tokens" =>
        \A i \in DOMAIN UpdateSteps(preBurst) :
            LET s == UpdateSteps(preBurst)[i]
            IN (/\ s.count >= s.before.promotion_threshold
                /\ ~has_room(s.before)
                /\ s.before.dgim_instances # <<>>
                /\ s.err = "none") =>
                  /\ Promoted(s) <=> s.count > MinTrackedEstimate(s.before)
                  /\ \A t \in s.before.tracked_tokens \ s.after.tracked_tokens :
                        DGIM_estimate(DictGet(s.before.dgim_instances, t))
                            = MinTrackedEstimate(s.before)

\* ------------------------------------------------------------------ top-K replacement policy
RECURSIVE TopStepsFrom(_, _)
\* The tokens the loop of _update_top_tokens processes, each with the detector
\* before and after it; the loop ends at the first exception.
TopStepsFrom(st, tokens) ==
    IF tokens = <<>> \/ st.err # "none" THEN <<>>
    ELSE LET next == UpdateTopToken(st, Head(tokens))
         IN <<[token |-> Head(tokens), before |-> st.f, after |-> next.f,
               err |-> next.err]>> \o TopStepsFrom(next, Tail(tokens))

TopSteps(f, tokens) == TopStepsFrom([f |-> f, err |-> "none"], tokens)

\* The least estimate stored in the top-K map of f (the map is not empty).
MinStored(f) ==
    LET counts == {f.top_tokens[i][2] : i \in DOMAIN f.top_tokens}
    IN CHOOSE m \in counts : \A c \in counts : m <= c

\* C26: in periodic_update an untracked token that finds K tokens tracked
\* replaces one iff its CMS estimate is greater than the least estimate stored
\* in the top-K map at that moment, and the token removed holds that least
\* stored estimate.
C26_ReplacesStoredMinimum ==
    \A recent_tokens \in RecentTokens :
        \A i \in DOMAIN TopSteps(freq, recent_tokens) :
            LET s == TopSteps(freq, recent_tokens)[i]
            IN (/\ ~DictHas(s.before.top_tokens, s.token)
                /\ Len(s.before.top_tokens) = s.before.top_k
                /\ s.before.top_k >= 1
                /\ s.err = "none") =>
                  /\ DictHas(s.after.top_tokens, s.token)
                        <=> CMS_estimate(s.before.cms, s.token) > MinStored(s.before)
                  /\ \A t \in DictKeys(s.before.top_tokens) \ DictKeys(s.after.top_tokens) :
                        DictGet(s.before.top_tokens, t) = MinStored(s.before)

\* ------------------------------------------------------------------ DGIM bucket order
\* C27: after any sequence of pushes the buckets, from the newest to the
\* oldest end_timestamp, have non-decreasing sizes: within a level the deque is
\* in order of end_timestamp, and every bucket of a higher level is strictly
\* older than every bucket of a lower level; and every bucket kept is live,
\* end_timestamp > time - window_size.
C27_BucketsOrderedAndLive ==
    /\ \A i \in DOMAIN Buckets(dgim), j \in DOMAIN Buckets(dgim) :
          Buckets(dgim)[i][1] > Buckets(dgim)[j][1] =>
              Buckets(dgim)[i][2] <= Buckets(dgim)[j][2]
    /\ \A lo \in DOMAIN dgim.levels, hi \in DOMAIN dgim.levels :
          lo < hi =>
              \A x \in DOMAIN dgim.levels[lo], y \in DOMAIN dgim.levels[hi] :
                  dgim.levels[hi][y][2] < dgim.levels[lo][x][2]
    /\ \A lvl \in DOMAIN dgim.levels :
          \A x \in DOMAIN dgim.levels[lvl], y \in DOMAIN dgim.levels[lvl] :
              x < y => dgim.levels[lvl][x][2] < dgim.levels[lvl][y][2]
    /\ \A i \in DOMAIN Buckets(dgim) :
          Buckets(dgim)[i][1] > dgim.time - dgim.window_size

\* The latest push was of a 1, it expired the bucket of size 4, and it left
\* buckets of size 2 and of size 1 behind.
C27_Witness ==
    /\ lastBit = 1
    /\ ~NoExpiry
    /\ Len(dgim.levels) >= 3
    /\ dgim.levels[1] # <<>>
    /\ dgim.levels[2] # <<>>
    /\ dgim.levels[3] = <<>>

\* ------------------------------------------------------------------ burst queries
\* The current estimate of a tracked token.
TrackedEstimate(b, token) == DGIM_estimate(DictGet(b.dgim_instances, token))

\* The tracked tokens whose estimate reaches burst_threshold.
Bursting(b) == {t \in b.tracked_tokens : TrackedEstimate(b, t) >= b.burst_threshold}

\* C28: is_burst() is true iff some tracked token has an estimate of at least
\* burst_threshold; get_burst_terms(top_n) returns at most top_n pairs, each a
\* tracked token with its estimate, which is at least burst_threshold, in
\* descending order of estimate, and every token left out that reaches the
\* threshold has an estimate no higher than any returned one.
C28_BurstQuerySemantics ==
    LET est == [t \in burst.tracked_tokens |-> TrackedEstimate(burst, t)]
        bursting == {t \in burst.tracked_tokens : est[t] >= burst.burst_threshold}
    IN /\ bursting = Bursting(burst)
       /\ is_burst(burst) <=> bursting # {}
       /\ \A top_n \in 0..3 :
             LET r == get_burst_terms(burst, top_n)
                 returned == {r[i][1] : i \in DOMAIN r}
             IN /\ Len(r) <= top_n
                /\ returned \subseteq bursting
                /\ Cardinality(returned) = Len(r)
                /\ \A i \in DOMAIN r : r[i][2] = est[r[i][1]]
                /\ \A i \in DOMAIN r, j \in DOMAIN r : i < j => r[i][2] >= r[j][2]
                /\ \A t \in bursting \ returned :
                      \A i \in DOMAIN r : est[t] <= r[i][2]

\* Two tracked tokens reach the threshold, the one that comes second in the
\* dict with the greater estimate: get_burst_terms(1) has to pick it.
C28_Witness ==
    /\ is_burst(burst)
    /\ Len(burst.dgim_instances) = 2
    /\ Cardinality(Bursting(burst)) = 2
    /\ DGIM_estimate(burst.dgim_instances[1][2]) < DGIM_estimate(burst.dgim_instances[2][2])
    /\ get_burst_terms(burst, 1) = <<<<burst.dgim_instances[2][1],
                                       DGIM_estimate(burst.dgim_instances[2][2])>>>>

\* C29: every token in the candidate buffer has a counter of at least 1 (a
\* candidate whose counter decays to 0 leaves the buffer).
C29_CandidatesPositive ==
    \A i \in DOMAIN burst.candidate_tokens : burst.candidate_tokens[i][2] >= 1

\* ------------------------------------------------------------------ frequency estimates
\* C30 as stated: for every token, estimate_frequency(token) is at least the
\* number of times observe_message has seen the token.
C30_Original ==
    \A token \in CmsItems : estimate_frequency(freq, token) >= trueCount[token]

\* C30: for every token that is its own lower-case form, as the tokens of
\* preprocessed text are, estimate_frequency(token) is at least the number of
\* times observe_message has seen the token.
C30_LowercaseUpperBound ==
    \A token \in CmsItems :
        Lower(token) = token => estimate_frequency(freq, token) >= trueCount[token]

\* "b" was seen twice and its estimate is exactly 2, in a stream that also
\* held the token "A".
C30_Witness ==
    /\ trueCount["b"] = 2
    /\ trueCount["A"] >= 1
    /\ estimate_frequency(freq, "b") = 2

\* ------------------------------------------------------------------ DGIM silence
\* The latest window_size pushes were all pushes of 0.
WindowOfZeros ==
    /\ Len(stream) = dgim.window_size
    /\ \A i \in DOMAIN stream : stream[i] = 0

\* C31: from any reachable state, after window_size consecutive push(0) calls
\* estimate() returns 0 and no bucket remains.
C31_SilenceForgets ==
    WindowOfZeros => (DGIM_estimate(dgim) = 0 /\ Buckets(dgim) = <<>>)

\* A DGIM that had merged buckets (it has a second level) and then took a
\* full window of zeros, the last of which expired the last bucket.
C31_Witness ==
    /\ WindowOfZeros
    /\ Len(dgim.levels) >= 2
    /\ Buckets(preDgim) # <<>>
    /\ dgim.window_size >= 3


\* ------------------------------------------------------------------ CMS mass
RECURSIVE SumCells(_, _)
\* sum(table_row[0:n]) of one row of the table.
SumCells(table_row, n) ==
    IF n = 0 THEN 0 ELSE table_row[n - 1] + SumCells(table_row, n - 1)

\* The sum of the counters of row r of sketch c.
RowSum(c, r) == SumCells(c.table[r], c.width)

\* Every row of the sketch sums to total_count, and no estimate exceeds it.
MassConserved(c) ==
    /\ \A r \in 1..c.depth : RowSum(c, r) = c.total_count
    /\ \A x \in MergeItems : CMS_estimate(c, x) <= c.total_count

\* C32: after any sequence of add and merge calls total_count never
\* decreases, the counters of every row sum to total_count, and so
\* estimate(x) <= total_count for every item x.
C32_MassConservation ==
    /\ MassConserved(cms)
    /\ MassConserved(other)
    /\ cms.total_count >= preCms.total_count
    /\ other.total_count >= preOther.total_count

\* A successful merge of two non-empty two-row sketches whose mass lies in
\* different columns, so that an estimate is below total_count.
C32_Witness ==
    /\ lastCall = "merge" /\ raised = "none"
    /\ preCms.total_count > 0 /\ other.total_count > 0
    /\ cms.total_count = preCms.total_count + other.total_count
    /\ cms.depth = 2 /\ cms.width = 2
    /\ \E x \in MergeItems : CMS_estimate(cms, x) < cms.total_count

====
